---- MODULE Spec2Model ----
(***************************************************************************)
(* A model of the playground's sandbox orchestration engine:              *)
(* PlaygroundEngine (initialize, switchTemplate, saveSnapshot, cleanup,    *)
(* the dependency install gate), TemplateManager (computeDiff, applyDiff), *)
(* FileSystemManager (the read cache), PersistenceManager (snapshots and   *)
(* auto-save) and the sandbox they drive.                                  *)
(*                                                                         *)
(* A path is a tuple of names (<<"src", "App.js">> is /src/App.js).  A     *)
(* file content is a record: t is the text ("" is the empty string, the   *)
(* only falsy content in JavaScript), and for a package manifest t is      *)
(* "json" and name, deps, dev hold what JSON.parse finds in it; gen tells  *)
(* the text JSON.stringify(packageJson, null, 2) of the install gate from  *)
(* the text the template's author wrote.  A dependency map is a sequence   *)
(* of <<name, version>> pairs: JSON.stringify keeps the key order, so two  *)
(* maps have the same serialization iff the sequences are equal.           *)
(***************************************************************************)
EXTENDS Integers, Sequences, FiniteSets, TLC

\* ------------------------------------------------------------------ values

NoDeps == << >>

Txt(s) == [t |-> s, name |-> "", deps |-> NoDeps, dev |-> NoDeps, gen |-> FALSE]

Manifest(n, d, dv) == [t |-> "json", name |-> n, deps |-> d, dev |-> dv, gen |-> FALSE]

\* JavaScript truthiness of a string: only the empty string is falsy.
Truthy(c) == c.t # ""

EmptyMap == [p \in {} |-> Txt("")]

Restrict(f, S) == [p \in S |-> f[p]]

File(c) == [kind |-> "file", contents |-> c]

Dir(tree) == [kind |-> "directory", directory |-> tree]

\* ------------------------------------------------------------- the templates

\* Three values of type Template as a caller supplies them, shaped after the
\* repository's react, vanilla-js and vue templates with every text abridged
\* to a token.  Between them they hold what a template may hold: a manifest
\* whose dependencies differ from the template's own field, a hidden file in a
\* directory, a file with the same text in two templates, and a template
\* without devDependencies.

ReactDeps == << <<"react", "19">> >>
ViteDev == << <<"vite", "7">> >>
VueDeps == << <<"vue", "3">>, <<"vite", "5">> >>

ReactTemplate ==
  [id |-> "react",
   files |-> [n \in {"package.json", "index.html", "src"} |->
                CASE n = "package.json" -> File(Manifest("react-playground", ReactDeps, ViteDev))
                  [] n = "index.html" -> File(Txt("root"))
                  [] OTHER -> Dir([m \in {"App.js", ".keep"} |->
                                     IF m = "App.js" THEN File(Txt("react-app"))
                                     ELSE File(Txt("keep"))])],
   dependencies |-> ReactDeps,
   devDependencies |-> ViteDev,
   entryFile |-> <<"src", "App.js">>]

VanillaTemplate ==
  [id |-> "vanilla-js",
   files |-> [n \in {"package.json", "index.html", "main.js", "style.css", "src"} |->
                CASE n = "package.json" -> File(Manifest("vanilla-playground", NoDeps, ViteDev))
                  [] n = "index.html" -> File(Txt("root"))
                  [] n = "main.js" -> File(Txt("vanilla-main"))
                  [] n = "style.css" -> File(Txt("vanilla-style"))
                  [] OTHER -> Dir([m \in {".keep"} |-> File(Txt("keep"))])],
   dependencies |-> NoDeps,
   devDependencies |-> ViteDev,
   entryFile |-> <<"main.js">>]

VueTemplate ==
  [id |-> "vue",
   files |-> [n \in {"package.json", "index.html", "src"} |->
                CASE n = "package.json" -> File(Manifest("vue-playground", << <<"vue", "3">> >>, << <<"vite", "5">> >>))
                  [] n = "index.html" -> File(Txt("app"))
                  [] OTHER -> Dir([m \in {"App.js"} |-> File(Txt("vue-app"))])],
   dependencies |-> VueDeps,
   devDependencies |-> NoDeps,
   entryFile |-> <<"src", "App.js">>]

\* A later revision of the react template as a caller may supply it: the same
\* id, one dependency at another version and another text in a file.
ReactTemplateV2 ==
  [id |-> "react",
   files |-> [n \in {"package.json", "index.html", "src"} |->
                CASE n = "package.json" ->
                       File(Manifest("react-playground", << <<"react", "20">> >>, ViteDev))
                  [] n = "index.html" -> File(Txt("root"))
                  [] OTHER -> Dir([m \in {"App.js"} |-> File(Txt("react-app-2"))])],
   dependencies |-> << <<"react", "20">> >>,
   devDependencies |-> ViteDev,
   entryFile |-> <<"src", "App.js">>]

Templates == {ReactTemplate, VanillaTemplate, VueTemplate}

TemplateIds == {tp.id : tp \in Templates}

NoTemplate == "none"

\* A Template object is referred to by a name: its id for the three templates,
\* and ReactV2 for the revision that shares the id of the react template.
ReactV2 == "react@2"

TemplateRefs == TemplateIds \cup {ReactV2}

TemplateOf(ref) ==
  IF ref = ReactV2 THEN ReactTemplateV2 ELSE CHOOSE tp \in Templates : tp.id = ref

\* template.id, of the template object that ref names
IdOf(ref) == IF ref = NoTemplate THEN NoTemplate ELSE TemplateOf(ref).id

\* ----------------------------------------------------- TemplateManager (pure)

RECURSIVE flattenFileTree(_, _)
flattenFileTree(tree, basePath) ==
  LET entry(n) ==
        IF tree[n].kind = "file"
        THEN [p \in {Append(basePath, n)} |-> tree[n].contents]
        ELSE flattenFileTree(tree[n].directory, Append(basePath, n))
      RECURSIVE collect(_)
      collect(S) ==
        IF S = {} THEN EmptyMap
        ELSE LET n == CHOOSE x \in S : TRUE
             IN  entry(n) @@ collect(S \ {n})
  IN  collect(DOMAIN tree)

Flat(tp) == flattenFileTree(tp.files, << >>)

\* Map.get(path): the content, or undefined when the map has no such key;
\* `!current` is true for undefined and for the empty string.
Falsy(map, p) == p \notin DOMAIN map \/ ~Truthy(map[p])

computeDiff(current, targetFiles) ==
  [added    |-> {p \in DOMAIN targetFiles : Falsy(current, p)},
   modified |-> {p \in DOMAIN targetFiles :
                   ~Falsy(current, p) /\ current[p] # targetFiles[p]},
   removed  |-> {p \in DOMAIN current : p \notin DOMAIN targetFiles}]

EmptyDiff == [added |-> {}, modified |-> {}, removed |-> {}]

\* JSON.stringify(a) + JSON.stringify(b) compared as strings.
dependenciesChanged(current, target) ==
  <<current.dependencies, current.devDependencies>>
    # <<target.dependencies, target.devDependencies>>

\* ------------------------------------------------------ the sandbox filesystem
\* fs.files maps the path of every file to its content, fs.dirs is the set of
\* directories other than the root.

Root == << >>

NodeModules == <<"node_modules">>

\* entry.name.startsWith('.')
HiddenNames == {".keep", ".env", ".github"}

EmptyFs == [files |-> EmptyMap, dirs |-> {}]

Parent(p) == SubSeq(p, 1, Len(p) - 1)

Prefixes(p) == {SubSeq(p, 1, k) : k \in 1..(Len(p) - 1)}

IsUnder(p, d) == Len(p) > Len(d) /\ SubSeq(p, 1, Len(d)) = d

Overwrite(map, new) == new @@ map

Without(map, S) == Restrict(map, DOMAIN map \ S)

\* instance.mount(tree): writes the tree's files over what is there and removes
\* nothing.
fsMount(fs, flat) ==
  [files |-> Overwrite(fs.files, flat),
   dirs  |-> fs.dirs \cup UNION {Prefixes(p) : p \in DOMAIN flat}]

\* fs.writeFile fails (ENOENT) when the parent directory does not exist.
CanWrite(fs, p) == Parent(p) = Root \/ Parent(p) \in fs.dirs

fsWriteFile(fs, p, c) == [fs EXCEPT !.files = Overwrite(@, [q \in {p} |-> c])]

\* fs.mkdir(dir, {recursive: true})
fsMkdir(fs, d) == [fs EXCEPT !.dirs = @ \cup {d} \cup Prefixes(d)]

\* fs.rm(path, {recursive: true, force: true}), and fs.rm(file, {force: true})
fsRm(fs, p) ==
  [files |-> Without(fs.files, {q \in DOMAIN fs.files : q = p \/ IsUnder(q, p)}),
   dirs  |-> {d \in fs.dirs : ~(d = p \/ IsUnder(d, p))}]

\* fs.readdir(dir): the paths of the entries of dir
readdir(fs, d) == {q \in (DOMAIN fs.files) \cup fs.dirs : Parent(q) = d}

Last(p) == p[Len(p)]

\* entry.name !== 'node_modules' && !entry.name.startsWith('.')
Shown(q) == Last(q) # "node_modules" /\ Last(q) \notin HiddenNames

\* Every name on the path passes the filter of buildFileTree.
Listed(p) == \A k \in 1..Len(p) : p[k] # "node_modules" /\ p[k] \notin HiddenNames

\* ------------------------------------------- TemplateManager.applyDiff (pure)

\* A first loop that removes nothing.
skipRemovals(fs, removed) == fs

\* Step 1: rm every path of diff.removed and forget it in currentFiles.
applyRemovals(fs, removed) ==
  [files |-> Without(fs.files, removed), dirs |-> fs.dirs]

RECURSIVE removeEmptyDirsRecursive(_, _)
removeEmptyDirsRecursive(fs, dirPath) ==
  IF dirPath # Root /\ dirPath \notin fs.dirs THEN fs      \* readdir throws
  ELSE
    LET filtered == {q \in readdir(fs, dirPath) : Shown(q)}
        RECURSIVE visit(_, _)
        visit(f, S) ==
          IF S = {} THEN f
          ELSE LET q == CHOOSE x \in S : TRUE
               IN  visit(IF q \in f.dirs THEN removeEmptyDirsRecursive(f, q) ELSE f,
                         S \ {q})
        after == visit(fs, filtered)
        filteredAfter == {q \in readdir(after, dirPath) : Shown(q)}
    IN  IF filtered = {} /\ dirPath # Root THEN fsRm(fs, dirPath)
        ELSE IF filteredAfter = {} /\ dirPath # Root THEN fsRm(after, dirPath)
        ELSE after

cleanupEmptyDirectories(fs) == removeEmptyDirsRecursive(fs, Root)

\* Step 2: the paths the second loop writes (`if (content)` skips an empty one).
Written(diff, targetFiles) ==
  {p \in diff.added \cup diff.modified : p \in DOMAIN targetFiles /\ Truthy(targetFiles[p])}

applyWrites(fs, diff, targetFiles) ==
  LET W == Written(diff, targetFiles)
      withDirs == [fs EXCEPT !.dirs = @ \cup UNION {Prefixes(p) : p \in W}]
  IN  [withDirs EXCEPT !.files = Overwrite(@, Restrict(targetFiles, W))]

\* applyDiff as a whole: the sandbox and this.currentFiles it leaves, and the
\* sandbox as it was between step 1.5 and step 2.
applyDiff(fs, current, diff, targetFiles) ==
  [fs |-> applyWrites(cleanupEmptyDirectories(applyRemovals(fs, diff.removed)),
                      diff, targetFiles),
   pruned |-> cleanupEmptyDirectories(applyRemovals(fs, diff.removed)),
   currentFiles |-> Overwrite(Without(current, diff.removed),
                              Restrict(targetFiles, Written(diff, targetFiles)))]

\* updateCurrentState(template): this.currentFiles is the flattened tree.
updateCurrentState(tree) == flattenFileTree(tree, << >>)

\* ------------------------------------------------------------------ bounds

\* Calls of the engine that may be in flight together.
NSlots == 2

\* devServers counts the live dev-server processes up to MaxProcs, which stands
\* for "MaxProcs or more".
MaxProcs == 3

\* setTimeout callbacks of initialize (the delayed enableAutoSave) outstanding.
MaxPendingArm == 1

\* Calls the callers make, edits the user makes, and intervals that fire, in
\* one behaviour.
MaxCalls == 3
MaxEdits == 1
MaxTicks == 1
MaxBoots == 2
MaxConcCalls == 2
MaxRestoreCalls == 4
MaxAdvances == 1
MaxStoredCalls == 2
MaxPartCalls == 3
MaxClock == 3
PartsTtl == 1
PartsMaxSize == 2

Slots == 1..NSlots

\* What a user writes through updateFile, and where.
UserPaths == {<<"index.html">>, <<"notes.txt">>}

UserContents == {Txt("edited")}

\* The file trees the TemplateManager is driven with on its own: a file at the
\* root and a file in a directory, each absent, empty or with one of two texts;
\* and, each present or not, a hidden file in that directory, a file two
\* directories down, and a file two directories down in a hidden directory.
DiffContents == {Txt(""), Txt("one"), Txt("two")}

DiffExtras == {"keep", "deep", "hidden"}

DiffTree(A, B, D) ==
  LET lib == [m \in {"b.js" : c \in B} \cup ({".keep", "deep"} \cap
                     {IF x = "keep" THEN ".keep" ELSE x : x \in D}) |->
                IF m = "b.js" THEN File(CHOOSE c \in B : TRUE)
                ELSE IF m = ".keep" THEN File(Txt("keep"))
                ELSE Dir([k \in {"c.js"} |-> File(Txt("one"))])]
      github == [m \in {"workflows"} |-> Dir([k \in {"ci.yml"} |-> File(Txt("one"))])]
  IN  [n \in {"a.js" : c \in A} \cup {"lib" : m \in DOMAIN lib}
                \cup {".github" : x \in D \cap {"hidden"}} |->
         IF n = "a.js" THEN File(CHOOSE c \in A : TRUE)
         ELSE IF n = "lib" THEN Dir(lib)
         ELSE Dir(github)]

DiffTrees ==
  {DiffTree(A, B, D) : A \in {{}} \cup {{c} : c \in DiffContents},
                       B \in {{}} \cup {{c} : c \in DiffContents},
                       D \in SUBSET DiffExtras}

\* ------------------------------------------------------------------- state

VARIABLES
  status,           \* PlaygroundEngine.status
  storeStatus,      \* $playgroundStatus
  currentTemplate,  \* the id of PlaygroundEngine.currentTemplate, or NoTemplate
  persistence,      \* the playgroundId of PlaygroundEngine.persistence
  hasFsm,           \* filesystemManager !== null
  hasTm,            \* templateManager !== null
  hasPreview,       \* preview !== null
  installedHash,    \* installedDependenciesHash
  fileCache,        \* FileSystemManager.fileCache
  currentFiles,     \* TemplateManager.currentFiles
  instance,         \* WebContainerManager.instance !== null
  fs,               \* the sandbox filesystem
  devServers,       \* live dev-server processes in the sandbox
  processes,        \* how many of them WebContainerManager.processes holds
  storage,          \* localStorage
  editorView,       \* EditorController.view !== null
  activeFile,       \* EditorController.activeFile
  openTabs,         \* EditorController.openTabs
  autoSave,         \* options.autoSave
  pendingArm,       \* outstanding setTimeout(enableAutoSave, 3000) callbacks
  curTimer,         \* this.persistence.autoSaveInterval !== null
  orphanTimers,     \* storage keys of intervals on replaced PersistenceManagers
  tick,             \* the auto-save callback in flight
  calls,            \* the engine calls in flight, per slot
  bootPromise,      \* WebContainerManager.bootPromise
  boots,            \* how many times WebContainer.boot() was invoked
  templateCache,    \* PlaygroundEngine.templateCache
  storeTemplate,    \* $currentTemplate
  now,              \* Date.now()
  listeners,        \* EventEmitter.listeners: per event, the handlers in the
                    \* order they were added
  serverReady,      \* the sandbox's server-ready signal: the handlers
                    \* registered for it, and the preview:ready events the
                    \* last signal led to
  watcher,          \* FileWatcher: whether '/' is watched, the content each
                    \* path's debounce timer holds, and the last file:change
                    \* event it emitted
  made              \* what has happened so far: the calls, edits and ticks
                    \* made, the last call returned, the last install gate

engineVars == <<status, storeStatus, currentTemplate, persistence, hasFsm, hasTm,
                hasPreview, installedHash>>
fsmVars == <<fileCache, currentFiles>>
sandboxVars == <<instance, fs, devServers, serverReady, processes>>
editorVars == <<editorView, activeFile, openTabs>>
timerVars == <<autoSave, pendingArm, curTimer, orphanTimers, tick>>
staticVars == <<bootPromise, boots, templateCache, storeTemplate, now>>
vars == <<engineVars, fsmVars, sandboxVars, storage, editorVars, timerVars, calls,
          staticVars, listeners, watcher, made>>

NoPath == << >>

NoHash == [some |-> FALSE, deps |-> NoDeps]

Hash(d) == [some |-> TRUE, deps |-> d]

\* `playground-${playgroundId}`
storageKey(id) == <<"playground-", id>>

\* No boot has been started; a started one is pending, resolved or rejected,
\* and wc numbers the WebContainer it boots.
NoPromise == [st |-> "none", wc |-> 0]

IdleCall ==
  [op |-> "none", pc |-> "idle", tpl |-> NoTemplate, from |-> NoTemplate,
   diff |-> EmptyDiff, todo |-> {}, listing |-> {}, log |-> << >>,
   installs |-> {}, errs |-> 0, fault |-> "none", resolved |-> NoTemplate,
   awaits |-> NoPromise, before |-> << >>, arg |-> << >>, ret |-> << >>,
   restored |-> FALSE, hash |-> NoHash,
   mode |-> "none", atCall |-> EmptyMap,
   saved |-> [key |-> storageKey(NoTemplate), files |-> EmptyMap],
   target |-> EmptyMap, pruned |-> EmptyFs]

IdleTick == [pc |-> "idle", key |-> storageKey("default"), listing |-> {}]

EmptyCache == [id \in {} |-> [template |-> NoTemplate, timestamp |-> 0, seq |-> 0]]

NoCall == [op |-> "none", mode |-> "none", ok |-> TRUE]

NoGate == [ran |-> FALSE, deps |-> <<NoDeps, NoDeps>>, installed |-> FALSE]

\* new Map(): no event has a handler.
NoListeners == [event \in {} |-> << >>]

\* The handler the engine's constructor registers for file:change: it writes
\* the content through to the sandbox when the path is the editor's active
\* file, and catches what the write throws.
WriteThrough == [id |-> 0, throws |-> FALSE, once |-> FALSE]

\* The listeners of the engine's EventEmitter once the constructor returned.
EngineListeners == [event \in {"file:change"} |-> <<WriteThrough>>]

\* A sandbox on which no PreviewServer has started and no server has become
\* ready.
NoServerReady == [handlers |-> 0, emitted |-> 0]

\* new FileWatcher(webcontainer, events, 150): nothing watched, no debouncer.
NoWatcher == [watched |-> FALSE, pending |-> EmptyMap, emitted |-> << >>]

NothingMade ==
  [calls |-> 0, edits |-> 0, ticks |-> 0, last |-> NoCall, gate |-> NoGate,
   rejected |-> 0, io |-> [arg |-> << >>, ret |-> << >>],
   kept |-> [id \in {} |-> EmptyMap]]

InitCommon ==
  /\ status = "initializing"
  /\ storeStatus = "initializing"
  /\ currentTemplate = NoTemplate
  /\ persistence = "default"
  /\ hasFsm = FALSE
  /\ hasTm = FALSE
  /\ hasPreview = FALSE
  /\ installedHash = NoHash
  /\ fileCache = EmptyMap
  /\ currentFiles = EmptyMap
  /\ instance = FALSE
  /\ fs = EmptyFs
  /\ devServers = 0
  /\ serverReady = NoServerReady
  /\ processes = 0
  /\ storage = [k \in {} |-> 0]
  /\ editorView = FALSE
  /\ activeFile = NoPath
  /\ openTabs = {}
  /\ pendingArm = 0
  /\ curTimer = FALSE
  /\ orphanTimers = {}
  /\ tick = IdleTick
  /\ calls = [s \in Slots |-> IdleCall]
  /\ bootPromise = NoPromise
  /\ boots = 0
  /\ templateCache = EmptyCache
  /\ storeTemplate = NoTemplate
  /\ now = 0
  /\ watcher = NoWatcher
  /\ made = NothingMade

Init == InitCommon /\ autoSave = FALSE /\ listeners = EngineListeners

\* ------------------------------------------------------- helpers of the engine

Min(a, b) == IF a < b THEN a ELSE b

PackageJson == <<"package.json">>

Names(d) == {d[i][1] : i \in 1..Len(d)}

Version(d, n) == d[CHOOSE i \in 1..Len(d) : d[i][1] = n][2]

\* { ...a, ...b }: the keys of a in their order, with b's value where b has the
\* key, then the keys only b has.
MergeDeps(a, b) ==
  [i \in 1..Len(a) |->
     IF a[i][1] \in Names(b) THEN <<a[i][1], Version(b, a[i][1])>> ELSE a[i]]
    \o SelectSeq(b, LAMBDA e : e[1] \notin Names(a))

\* installDependencies up to the spawn of `npm install`, for the engine's
\* currentTemplate cur, the recorded hash ih and the sandbox f: what the gate
\* decides (return, spawn the installer, or throw), the filesystem it leaves
\* and the hash it records.
installGate(f, cur, ih, booted) ==
  IF cur = NoTemplate \/ TemplateOf(cur).dependencies = NoDeps
  THEN [next |-> "return", fs |-> f, hash |-> ih]
  ELSE
    LET ct == TemplateOf(cur)
        tpj == IF PackageJson \in DOMAIN f.files THEN f.files[PackageJson] ELSE Txt("")
        packageJson ==
          [t |-> "json",
           name |-> IF tpj.name # "" THEN tpj.name ELSE IdOf(cur),
           deps |-> MergeDeps(tpj.deps, ct.dependencies),
           dev |-> tpj.dev,
           gen |-> TRUE]
        written == fsWriteFile(f, PackageJson, packageJson)
    IN  IF ih = Hash(ct.dependencies) THEN [next |-> "return", fs |-> f, hash |-> ih]
        ELSE IF ~booted THEN [next |-> "throw", fs |-> f, hash |-> ih]
        ELSE IF /\ NodeModules \in written.dirs
                /\ packageJson.deps = ct.dependencies
                /\ packageJson.dev = ct.devDependencies
        THEN [next |-> "return", fs |-> written, hash |-> Hash(ct.dependencies)]
        ELSE [next |-> "spawn", fs |-> written, hash |-> ih]

\* getFileTree: the files buildFileTree lists (it skips node_modules and hidden
\* entries at every level).
getFileTree(f) == {p \in DOMAIN f.files : Listed(p)}

\* getAllFiles after the listing: readFile of every listed path through the
\* read cache; a path that can no longer be read is skipped.
readAll(f, cache, listing) ==
  LET got == {p \in listing : p \in DOMAIN cache \/ p \in DOMAIN f.files}
      files == [p \in got |-> IF p \in DOMAIN cache THEN cache[p] ELSE f.files[p]]
  IN  [files |-> files, cache |-> Overwrite(cache, files)]

\* PlaygroundEngine.loadSnapshot with PersistenceManager.loadSnapshot.  The
\* files are written in the snapshot's order (getAllFiles lists directories
\* first), so a file whose directory is missing fails before any other is
\* written; editor.openFile throws while no editor is mounted.  A stored text
\* that JSON.parse rejects has the field invalid; a parsed value lacks the
\* properties its text lacks, and reading through a missing files or openTabs
\* throws a TypeError.  threw tells a rejection from a returned false.
loadSnapshot(f, cache, store, id, cur, fsmThere, view, tabs, active) ==
  LET key == storageKey(id)
      none == [ok |-> FALSE, threw |-> FALSE, fs |-> f, cache |-> cache,
               openTabs |-> tabs, activeFile |-> active]
  IN  IF key \notin DOMAIN store \/ ~fsmThere THEN none
      ELSE IF "invalid" \in DOMAIN store[key] THEN none
      ELSE IF "templateId" \notin DOMAIN store[key] THEN none
      ELSE IF store[key].templateId # cur THEN none
      ELSE IF "files" \notin DOMAIN store[key] THEN [none EXCEPT !.threw = TRUE]
      ELSE
        LET snap == store[key]
            wrote == [f EXCEPT !.files = Overwrite(@, snap.files)]
            dropped == Without(cache, DOMAIN snap.files)
            partial == [ok |-> FALSE, threw |-> TRUE, fs |-> wrote, cache |-> dropped,
                        openTabs |-> tabs, activeFile |-> active]
            snapActive == IF "activeFile" \in DOMAIN snap THEN snap.activeFile
                          ELSE NoPath
        IN  IF \E p \in DOMAIN snap.files : ~CanWrite(f, p)
            THEN [none EXCEPT !.threw = TRUE]
            ELSE IF "openTabs" \notin DOMAIN snap THEN partial
            ELSE IF snap.openTabs = {} /\ snapActive = NoPath
            THEN [partial EXCEPT !.ok = TRUE, !.threw = FALSE]
            ELSE IF ~view THEN partial
            ELSE [ok |-> TRUE, threw |-> FALSE, fs |-> wrote, cache |-> dropped,
                  openTabs |-> tabs \cup snap.openTabs
                                 \cup (IF snapActive # NoPath
                                       THEN {snapActive} ELSE {}),
                  activeFile |-> IF snapActive # NoPath THEN snapActive
                                 ELSE CHOOSE p \in snap.openTabs : TRUE]

\* A rejection that nothing handles.
uncaught(r) == r

\* `.catch(() => false)`: a rejection becomes the value false.
caught(r) == [r EXCEPT !.threw = FALSE]

\* this.persistence = new PersistenceManager(id): an interval of the replaced
\* manager keeps running, out of the engine's reach.
NewPersistence(id) ==
  /\ persistence' = id
  /\ orphanTimers' = IF curTimer THEN orphanTimers \cup {storageKey(persistence)}
                     ELSE orphanTimers
  /\ curTimer' = FALSE

\* new TemplateCache({ ttl: 10 * 60 * 1000, maxSize: 15 })
CacheTtl == 600000

CacheMaxSize == 15

EngineCache == [ttl |-> CacheTtl, maxSize |-> CacheMaxSize]

\* A get that leaves an expired entry in place.
cacheGetKeeping(cache, options, id, t) ==
  IF id \notin DOMAIN cache \/ t - cache[id].timestamp > options.ttl
  THEN [template |-> NoTemplate, cache |-> cache]
  ELSE [template |-> cache[id].template, cache |-> cache]

\* TemplateCache.get at time t: the template and the cache it leaves (an
\* entry older than the ttl is deleted).
cacheGet(cache, options, id, t) ==
  IF id \notin DOMAIN cache THEN [template |-> NoTemplate, cache |-> cache]
  ELSE IF t - cache[id].timestamp > options.ttl
  THEN [template |-> NoTemplate, cache |-> Without(cache, {id})]
  ELSE [template |-> cache[id].template, cache |-> cache]

\* The entry inserted last.
getNewestKey(cache) ==
  CHOOSE k \in DOMAIN cache : \A j \in DOMAIN cache : cache[j].seq <= cache[k].seq

\* The first entry, in the Map's insertion order (seq), with the smallest
\* timestamp.
getOldestKey(cache) ==
  CHOOSE k \in DOMAIN cache :
    \A j \in DOMAIN cache :
      \/ cache[k].timestamp < cache[j].timestamp
      \/ cache[k].timestamp = cache[j].timestamp /\ cache[k].seq <= cache[j].seq

\* TemplateCache.set at time t: a key that is there keeps its place in the
\* Map, a new one goes last.
cacheSet(cache, options, id, template, t) ==
  LET kept == IF Cardinality(DOMAIN cache) >= options.maxSize /\ cache # EmptyCache
              THEN Without(cache, {getOldestKey(cache)})
              ELSE cache
      last == IF kept = EmptyCache THEN 0 ELSE kept[getNewestKey(kept)].seq
      seq == IF id \in DOMAIN kept THEN kept[id].seq ELSE last + 1
  IN  Overwrite(kept, [k \in {id} |->
                         [template |-> template, timestamp |-> t, seq |-> seq]])

Idle == \A s \in Slots : calls[s].op = "none"

At(s, pc) == calls[s].op # "none" /\ calls[s].pc = pc

Goto(s, pc) == calls' = [calls EXCEPT ![s].pc = pc]

\* A setStatus that assigns the status and emits nothing.
SilentStatus(c, st) == c

Emitted(c, st) == [c EXCEPT !.log = Append(@, st)]

\* A catch block that rethrows and does nothing else.
Rethrown(s, c) ==
  /\ UNCHANGED <<status, storeStatus>>
  /\ calls' = [calls EXCEPT ![s] = [c EXCEPT !.pc = "failed"]]

\* The catch block of initialize and of switchTemplate.
Fail(s, c) ==
  /\ status' = "error"
  /\ storeStatus' = "error"
  /\ calls' = [calls EXCEPT ![s] =
                 [Emitted(c, "error") EXCEPT !.pc = "failed", !.errs = @ + 1]]

\* ------------------------------------------------------------- initialize

\* initialize(t) up to its first await: the status, then either the clearing of
\* a sandbox that already holds files or the assignment of currentTemplate and
\* persistence before boot().  switchTemplate runs the same code when it has
\* no prior template.
BeginInitialize(s, t, op) ==
  LET cached == cacheGet(templateCache, EngineCache, IdOf(t), now)
      resolvedTemplate == IF cached.template # NoTemplate THEN cached.template ELSE t
      c == [IdleCall EXCEPT !.op = op, !.tpl = t, !.from = currentTemplate,
                            !.mode = "full", !.log = <<"initializing">>,
                            !.resolved = resolvedTemplate]
  IN  /\ status' = "initializing"
      /\ storeStatus' = "initializing"
      /\ templateCache' = IF cached.template = NoTemplate
                          THEN cacheSet(cached.cache, EngineCache, IdOf(t), t, now)
                          ELSE cached.cache
      /\ storeTemplate' = resolvedTemplate
      /\ UNCHANGED <<bootPromise, boots, now>>
      /\ IF hasFsm /\ instance
         THEN /\ calls' = [calls EXCEPT ![s] =
                             [c EXCEPT !.pc = "i_clear",
                                       !.todo = readdir(fs, Root) \ {NodeModules}]]
              /\ UNCHANGED <<currentTemplate, persistence, curTimer, orphanTimers>>
         ELSE /\ calls' = [calls EXCEPT ![s] = [c EXCEPT !.pc = "i_boot"]]
              /\ currentTemplate' = t
              /\ NewPersistence(IdOf(t))
      /\ UNCHANGED <<hasFsm, hasTm, hasPreview, installedHash, fsmVars, sandboxVars,
                     storage, editorVars, autoSave, listeners, watcher, pendingArm, tick>>

Initialize(s, t) ==
  /\ calls[s].op = "none"
  /\ BeginInitialize(s, t, "initialize")

\* clearFileSystem: one rm of the loop over the entries of the root.
ClearStep(s) ==
  /\ At(s, "i_clear") \/ At(s, "c_clear")
  /\ calls[s].todo # {}
  /\ LET q == CHOOSE x \in calls[s].todo : TRUE
     IN  /\ fs' = fsRm(fs, q)
         /\ calls' = [calls EXCEPT ![s].todo = @ \ {q}]
  /\ UNCHANGED <<engineVars, fsmVars, instance, devServers, serverReady, processes, storage,
                 editorVars, timerVars, listeners, watcher>>
  /\ UNCHANGED <<made, staticVars>>

\* The end of clearFileSystem in initialize, and the code up to boot().
InitCleared(s) ==
  /\ At(s, "i_clear")
  /\ calls[s].todo = {}
  /\ installedHash' = NoHash
  /\ currentTemplate' = calls[s].tpl
  /\ NewPersistence(IdOf(calls[s].tpl))
  /\ Goto(s, "i_boot")
  /\ UNCHANGED <<status, storeStatus, hasFsm, hasTm, hasPreview, fsmVars, sandboxVars,
                 storage, editorVars, autoSave, listeners, watcher, pendingArm, tick>>
  /\ UNCHANGED <<made, staticVars>>

\* boot() resolves (with the instance there is, or with the WebContainer of
\* the boot it starts); the managers are created anew (empty cache, empty
\* currentFiles).
InitBoot(s) ==
  /\ At(s, "i_boot")
  /\ instance \/ bootPromise.st = "none"
  /\ instance' = TRUE
  /\ bootPromise' = IF instance THEN bootPromise ELSE [st |-> "resolved", wc |-> boots + 1]
  /\ boots' = IF instance THEN boots ELSE boots + 1
  /\ hasFsm' = TRUE
  /\ hasPreview' = TRUE
  /\ hasTm' = TRUE
  /\ fileCache' = EmptyMap
  /\ currentFiles' = EmptyMap
  /\ Goto(s, "i_mount")
  /\ UNCHANGED <<status, storeStatus, currentTemplate, persistence, installedHash,
                 fs, devServers, serverReady, processes, storage, editorVars, timerVars, listeners, watcher>>
  /\ UNCHANGED <<made, templateCache, storeTemplate, now>>

\* WebContainer.boot() rejects: the catch block of boot() drops the promise.
InitBootFail(s) ==
  /\ At(s, "i_boot")
  /\ ~instance
  /\ bootPromise.st = "none"
  /\ boots < MaxBoots
  /\ boots' = boots + 1
  /\ bootPromise' = NoPromise
  /\ Fail(s, [calls[s] EXCEPT !.fault = "boot"])
  /\ made' = [made EXCEPT !.rejected = @ + 1]
  /\ UNCHANGED <<currentTemplate, persistence, hasFsm, hasTm, hasPreview,
                 installedHash, fsmVars, sandboxVars, storage, editorVars, timerVars, listeners, watcher>>
  /\ UNCHANGED <<templateCache, storeTemplate, now>>

\* webcontainer.mount rejects (FileSystemManager.mount has cleared its cache).
InitMountFail(s) ==
  /\ At(s, "i_mount")
  /\ fileCache' = EmptyMap
  /\ Fail(s, [calls[s] EXCEPT !.fault = "mount"])
  /\ UNCHANGED <<currentTemplate, persistence, hasFsm, hasTm, hasPreview,
                 installedHash, currentFiles, sandboxVars, storage, editorVars,
                 timerVars, listeners, watcher>>
  /\ UNCHANGED <<made, staticVars>>

\* filesystemManager.mount(template.files), templateManager.updateCurrentState.
InitMount(s) ==
  /\ At(s, "i_mount")
  /\ fs' = fsMount(fs, Flat(TemplateOf(calls[s].tpl)))
  /\ fileCache' = EmptyMap
  /\ currentFiles' = Flat(TemplateOf(calls[s].tpl))
  /\ Goto(s, "i_load")
  /\ UNCHANGED <<engineVars, instance, devServers, serverReady, processes, storage, editorVars,
                 timerVars, listeners, watcher>>
  /\ UNCHANGED <<made, staticVars>>

\* loadSnapshot().catch(() => false), then setStatus('installing').
InitLoad(s) ==
  /\ At(s, "i_load")
  /\ LET r == caught(loadSnapshot(fs, fileCache, storage, persistence,
                                  IdOf(currentTemplate), hasFsm, editorView,
                                  openTabs, activeFile))
     IN  /\ fs' = r.fs
         /\ fileCache' = r.cache
         /\ openTabs' = r.openTabs
         /\ activeFile' = r.activeFile
         /\ IF r.threw
            THEN Fail(s, [calls[s] EXCEPT !.fault = "restore"])
            ELSE /\ calls' = [calls EXCEPT ![s] =
                               [Emitted(@, "installing") EXCEPT !.pc = "i_install",
                                                                !.restored = r.ok]]
                 /\ status' = "installing"
                 /\ storeStatus' = "installing"
  /\ UNCHANGED <<currentTemplate, persistence, hasFsm, hasTm, hasPreview,
                 installedHash, currentFiles, instance, devServers, serverReady, processes,
                 storage, editorView, timerVars, listeners, watcher>>
  /\ UNCHANGED <<made, staticVars>>

\* The dependency sets an install gate run is made with: those of the
\* engine's currentTemplate.
GateDeps(cur) ==
  IF cur = NoTemplate THEN <<NoDeps, NoDeps>>
  ELSE <<TemplateOf(cur).dependencies, TemplateOf(cur).devDependencies>>

\* installDependencies up to the installer's spawn (initialize and
\* switchTemplate): the process is spawned for the manifest in the sandbox.
InstallGate(s) ==
  /\ At(s, "i_install") \/ At(s, "sw_install")
  /\ LET g == installGate(fs, currentTemplate, installedHash, instance)
         after == IF calls[s].pc = "i_install" THEN "i_preview" ELSE "sw_kill"
         npm == IF calls[s].pc = "i_install" THEN "i_npm" ELSE "sw_npm"
     IN  /\ g.next # "throw"
         /\ fs' = g.fs
         /\ installedHash' = g.hash
         /\ calls' = [calls EXCEPT ![s] =
                        IF g.next = "return" THEN [@ EXCEPT !.pc = after]
                        ELSE [@ EXCEPT !.pc = npm,
                                       !.hash = Hash(TemplateOf(currentTemplate).dependencies),
                                       !.installs = @ \cup {g.fs.files[PackageJson]}]]
  /\ made' = [made EXCEPT !.gate =
                [ran |-> TRUE, deps |-> GateDeps(currentTemplate),
                 installed |-> /\ made.gate.ran
                               /\ made.gate.deps = GateDeps(currentTemplate)
                               /\ made.gate.installed]]
  /\ UNCHANGED <<status, storeStatus, currentTemplate, persistence, hasFsm, hasTm,
                 hasPreview, fsmVars, instance, devServers, serverReady, processes, storage,
                 editorVars, timerVars, listeners, watcher>>
  /\ UNCHANGED staticVars

\* `npm install` exits with code 0: node_modules is there, the hash is recorded.
NpmExit(s) ==
  /\ At(s, "i_npm") \/ At(s, "sw_npm")
  /\ fs' = fsMkdir(fs, NodeModules)
  /\ installedHash' = calls[s].hash
  /\ Goto(s, IF calls[s].pc = "i_npm" THEN "i_preview" ELSE "sw_kill")
  /\ made' = [made EXCEPT !.gate.installed = TRUE]
  /\ UNCHANGED <<status, storeStatus, currentTemplate, persistence, hasFsm, hasTm,
                 hasPreview, fsmVars, instance, devServers, serverReady, processes, storage,
                 editorVars, timerVars, listeners, watcher>>
  /\ UNCHANGED staticVars

\* `npm install` exits with another code: installDependencies emits an error
\* event and rethrows, and the caller's catch block emits one more.
NpmFail(s) ==
  /\ At(s, "i_npm") \/ At(s, "sw_npm")
  /\ Fail(s, [calls[s] EXCEPT !.errs = @ + 1, !.fault = "install"])
  /\ UNCHANGED <<currentTemplate, persistence, hasFsm, hasTm, hasPreview,
                 installedHash, fsmVars, sandboxVars, storage, editorVars, timerVars, listeners, watcher>>
  /\ UNCHANGED <<made, staticVars>>

\* PreviewServer.start: the dev server is spawned on the sandbox itself.
previewStart(n) == Min(n + 1, MaxProcs)

\* PreviewServer.start: webcontainer.on('server-ready', handler) adds a
\* handler; what on() returns to take it off again is dropped.
onServerReady(sr) == [sr EXCEPT !.handlers = Min(@ + 1, MaxProcs)]

\* preview.start(template.commands.dev), setStatus('ready') and the delayed
\* enableAutoSave.
InitPreview(s) ==
  /\ At(s, "i_preview")
  /\ hasPreview
  /\ devServers' = previewStart(devServers)
  /\ serverReady' = onServerReady(serverReady)
  /\ status' = "ready"
  /\ storeStatus' = "ready"
  /\ pendingArm' = IF autoSave THEN Min(pendingArm + 1, MaxPendingArm) ELSE pendingArm
  /\ calls' = [calls EXCEPT ![s] = [Emitted(@, "ready") EXCEPT !.pc = "done"]]
  /\ UNCHANGED <<currentTemplate, persistence, hasFsm, hasTm, hasPreview,
                 installedHash, fsmVars, instance, fs, processes, storage,
                 editorVars, autoSave, listeners, watcher, curTimer, orphanTimers, tick>>
  /\ UNCHANGED <<made, staticVars>>

\* The spawn of the dev server rejects.
InitPreviewFail(s) ==
  /\ At(s, "i_preview")
  /\ Fail(s, [calls[s] EXCEPT !.fault = "preview"])
  /\ UNCHANGED <<currentTemplate, persistence, hasFsm, hasTm, hasPreview,
                 installedHash, fsmVars, sandboxVars, storage, editorVars, timerVars, listeners, watcher>>
  /\ UNCHANGED <<made, staticVars>>

\* ---------------------------------------------------------- switchTemplate

\* The snapshot saveSnapshot and the auto-save callback build (version and
\* timestamp left out).
Snapshot(files) ==
  [templateId |-> IdOf(currentTemplate), files |-> files, openTabs |-> openTabs,
   activeFile |-> activeFile]

\* A switchTemplate that announces a switch and then returns.
AnnouncedOn(s, t) ==
  /\ calls' = [calls EXCEPT ![s] =
                 [IdleCall EXCEPT !.op = "switchTemplate", !.pc = "done",
                                  !.tpl = t, !.from = currentTemplate,
                                  !.mode = "noop"]]
  /\ status' = "initializing"
  /\ UNCHANGED <<storeStatus, currentTemplate, persistence, hasFsm, hasTm,
                 hasPreview, installedHash, fsmVars, sandboxVars, storage,
                 editorVars, timerVars, listeners, watcher, staticVars>>

\* switchTemplate(t) on the template with t's id: the warning and the return.
AlreadyOn(s, t) ==
  /\ calls' = [calls EXCEPT ![s] =
                 [IdleCall EXCEPT !.op = "switchTemplate", !.pc = "done",
                                  !.tpl = t, !.from = currentTemplate,
                                  !.mode = "noop"]]
  /\ UNCHANGED <<engineVars, fsmVars, sandboxVars, storage, editorVars,
                 timerVars, listeners, watcher, staticVars>>

\* switchTemplate(t) up to its first await: the full initialization without a
\* prior template, the no-op on the current template, or setStatus and the
\* start of saveSnapshot.
SwitchTemplate(s, t) ==
  /\ calls[s].op = "none"
  /\ IF currentTemplate = NoTemplate \/ ~hasTm \/ ~hasFsm
     THEN BeginInitialize(s, t, "switchTemplate")
     ELSE IF IdOf(currentTemplate) = IdOf(t)
     THEN AlreadyOn(s, t)
     ELSE /\ status' = "initializing"
          /\ calls' = [calls EXCEPT ![s] =
                         [IdleCall EXCEPT !.op = "switchTemplate", !.pc = "s_list",
                                          !.tpl = t, !.from = currentTemplate,
                                          !.mode = "diff",
                                          !.log = <<"initializing">>,
                                          !.atCall = Restrict(fs.files, getFileTree(fs))]]
          /\ UNCHANGED <<storeStatus, currentTemplate, persistence, hasFsm, hasTm,
                         hasPreview, installedHash, fsmVars, sandboxVars, storage,
                         editorVars, timerVars, listeners, watcher, staticVars>>

\* getAllFiles: the file tree is listed.
SaveList(s) ==
  /\ At(s, "s_list")
  /\ calls' = [calls EXCEPT ![s] = [@ EXCEPT !.pc = "s_read",
                                             !.listing = getFileTree(fs)]]
  /\ UNCHANGED <<engineVars, fsmVars, sandboxVars, storage, editorVars, timerVars, listeners, watcher>>
  /\ UNCHANGED <<made, staticVars>>

\* getAllFiles: the listed files are read, the snapshot is built and persisted
\* under this.persistence's key.  In switchTemplate the diff is computed next.
SaveRead(s) ==
  /\ At(s, "s_read")
  /\ currentTemplate # NoTemplate
  /\ LET r == readAll(fs, fileCache, calls[s].listing)
     IN  /\ fileCache' = r.cache
         /\ storage' = Overwrite(storage, [k \in {storageKey(persistence)} |->
                                             Snapshot(r.files)])
  /\ calls' = [calls EXCEPT ![s] =
                 LET kept == [key |-> storageKey(persistence),
                              files |-> readAll(fs, fileCache, @.listing).files]
                 IN  IF @.op = "switchTemplate"
                     THEN [@ EXCEPT !.pc = "sw_remove", !.saved = kept,
                                    !.diff = computeDiff(currentFiles,
                                                         Flat(TemplateOf(calls[s].tpl)))]
                     ELSE [@ EXCEPT !.pc = "done", !.saved = kept]]
  /\ UNCHANGED <<engineVars, currentFiles, sandboxVars, editorVars, timerVars, listeners, watcher>>
  /\ UNCHANGED <<made, staticVars>>

\* localStorage.setItem throws: PersistenceManager.saveSnapshot logs and throws
\* anew, PlaygroundEngine.saveSnapshot has no catch, and in switchTemplate the
\* await sits in the try block.
SaveFail(s) ==
  /\ At(s, "s_read")
  /\ currentTemplate # NoTemplate
  /\ fileCache' = readAll(fs, fileCache, calls[s].listing).cache
  /\ IF calls[s].op = "switchTemplate"
     THEN /\ Fail(s, [calls[s] EXCEPT !.fault = "save"])
          /\ UNCHANGED <<currentTemplate, persistence, hasFsm, hasTm, hasPreview,
                         installedHash>>
     ELSE /\ calls' = [calls EXCEPT ![s] = [@ EXCEPT !.pc = "failed", !.fault = "save"]]
          /\ UNCHANGED engineVars
  /\ UNCHANGED <<currentFiles, sandboxVars, storage, editorVars, timerVars, listeners, watcher>>
  /\ UNCHANGED <<made, staticVars>>

\* applyDiff, step 1: the removals.
SwRemove(s) ==
  /\ At(s, "sw_remove")
  /\ fs' = applyRemovals(fs, calls[s].diff.removed)
  /\ currentFiles' = Without(currentFiles, calls[s].diff.removed)
  /\ Goto(s, "sw_prune")
  /\ UNCHANGED <<engineVars, fileCache, instance, devServers, serverReady, processes, storage,
                 editorVars, timerVars, listeners, watcher>>
  /\ UNCHANGED <<made, staticVars>>

\* applyDiff, step 1.5: cleanupEmptyDirectories.
SwPrune(s) ==
  /\ At(s, "sw_prune")
  /\ fs' = cleanupEmptyDirectories(fs)
  /\ Goto(s, "sw_write")
  /\ UNCHANGED <<engineVars, fsmVars, instance, devServers, serverReady, processes, storage,
                 editorVars, timerVars, listeners, watcher>>
  /\ UNCHANGED <<made, staticVars>>

\* applyDiff, step 2: the writes; then clearCache and dependenciesChanged.
SwWrite(s) ==
  /\ At(s, "sw_write")
  /\ currentTemplate # NoTemplate
  /\ LET target == TemplateOf(calls[s].tpl)
         W == Written(calls[s].diff, Flat(target))
         changed == dependenciesChanged(TemplateOf(currentTemplate), target)
     IN  /\ fs' = applyWrites(fs, calls[s].diff, Flat(target))
         /\ currentFiles' = Overwrite(currentFiles, Restrict(Flat(target), W))
         /\ fileCache' = EmptyMap
         /\ status' = IF changed THEN "installing" ELSE status
         /\ calls' = [calls EXCEPT ![s] =
                        IF changed
                        THEN [Emitted(@, "installing") EXCEPT !.pc = "sw_install"]
                        ELSE [@ EXCEPT !.pc = "sw_kill"]]
  /\ UNCHANGED <<storeStatus, currentTemplate, persistence, hasFsm, hasTm,
                 hasPreview, installedHash, instance, devServers, serverReady, processes,
                 storage, editorVars, timerVars, listeners, watcher>>
  /\ UNCHANGED <<made, staticVars>>

\* WebContainerManager.killAll: the processes of the registry are killed.
killAll(alive, registered) == alive - registered

SwKill(s) ==
  /\ At(s, "sw_kill")
  /\ devServers' = killAll(devServers, processes)
  /\ processes' = 0
  /\ Goto(s, "sw_start")
  /\ UNCHANGED <<engineVars, fsmVars, instance, fs, serverReady, storage, editorVars,
                 timerVars, listeners, watcher>>
  /\ UNCHANGED <<made, staticVars>>

\* preview.start(newTemplate.commands.dev), then step 6: the new template
\* becomes current.
SwStart(s) ==
  /\ At(s, "sw_start")
  /\ devServers' = IF hasPreview THEN previewStart(devServers) ELSE devServers
  /\ serverReady' = IF hasPreview THEN onServerReady(serverReady) ELSE serverReady
  /\ currentTemplate' = calls[s].tpl
  /\ NewPersistence(IdOf(calls[s].tpl))
  /\ currentFiles' = Flat(TemplateOf(calls[s].tpl))
  /\ Goto(s, "sw_load")
  /\ UNCHANGED <<status, storeStatus, hasFsm, hasTm, hasPreview, installedHash,
                 fileCache, instance, fs, processes, storage, editorVars, autoSave, listeners, watcher,
                 pendingArm, tick>>
  /\ UNCHANGED <<made, staticVars>>

\* Step 7 and 8: loadSnapshot().catch(() => false), files:update, 'ready'.
SwLoad(s) ==
  /\ At(s, "sw_load")
  /\ LET r == caught(loadSnapshot(fs, fileCache, storage, persistence,
                                  IdOf(currentTemplate), hasFsm, editorView,
                                  openTabs, activeFile))
     IN  /\ fs' = r.fs
         /\ fileCache' = r.cache
         /\ openTabs' = r.openTabs
         /\ activeFile' = r.activeFile
         /\ IF r.threw
            THEN Fail(s, [calls[s] EXCEPT !.fault = "restore"])
            ELSE /\ calls' = [calls EXCEPT ![s] =
                               [Emitted(@, "ready") EXCEPT !.pc = "done",
                                                           !.restored = r.ok]]
                 /\ status' = "ready"
                 /\ UNCHANGED storeStatus
  /\ UNCHANGED <<currentTemplate, persistence, hasFsm, hasTm,
                 hasPreview, installedHash, currentFiles, instance, devServers, serverReady,
                 processes, storage, editorView, timerVars, listeners, watcher>>
  /\ UNCHANGED <<made, staticVars>>

\* ------------------------------------------------------------ saveSnapshot

SaveSnapshot(s) ==
  /\ calls[s].op = "none"
  /\ calls' = [calls EXCEPT ![s] =
                 [IdleCall EXCEPT !.op = "saveSnapshot",
                                  !.from = currentTemplate,
                                  !.pc = IF hasFsm /\ currentTemplate # NoTemplate
                                         THEN "s_list" ELSE "done"]]
  /\ UNCHANGED <<engineVars, fsmVars, sandboxVars, storage, editorVars, timerVars, listeners, watcher,
                 staticVars>>

\* ----------------------------------------------------------------- cleanup

\* What a caller can observe of the engine, its editor, its timer, the sandbox
\* and the storage.
EngineState ==
  <<engineVars, fsmVars, sandboxVars, storage, editorVars, curTimer, storeTemplate>>

\* A cleanup that takes the filesystem manager for granted.
CleanupEntryUnguarded(fsm, inst) == IF fsm THEN "c_clear" ELSE "failed"

\* `if (this.filesystemManager)`, then `if (!instance) return` in
\* clearFileSystem: where cleanup goes after killAll.
CleanupEntry(fsm, inst) == IF fsm /\ inst THEN "c_clear" ELSE "c_finish"

\* cleanup() up to the clearing of the filesystem: disableAutoSave on the
\* current PersistenceManager, editor.destroy, killAll. A cleanup called
\* on what a cleanup left, with no editor mounted since, remembers what it found.
Cleanup(s) ==
  /\ calls[s].op = "none"
  /\ curTimer' = FALSE
  /\ editorView' = FALSE
  /\ openTabs' = {}
  /\ devServers' = killAll(devServers, processes)
  /\ processes' = 0
  /\ calls' = [calls EXCEPT ![s] =
                 [IdleCall EXCEPT !.op = "cleanup", !.from = currentTemplate,
                                  !.pc = CleanupEntry(hasFsm, instance),
                                  !.before = IF made.last.op = "cleanup" /\ ~editorView
                                             THEN <<EngineState>> ELSE << >>,
                                  !.todo = IF hasFsm /\ instance
                                           THEN readdir(fs, Root) \ {NodeModules}
                                           ELSE {}]]
  /\ UNCHANGED <<engineVars, fsmVars, instance, fs, serverReady, storage, activeFile,
                 autoSave, listeners, watcher,
                 pendingArm, orphanTimers, tick, staticVars>>

\* The end of clearFileSystem in cleanup.
CleanupCleared(s) ==
  /\ At(s, "c_clear")
  /\ calls[s].todo = {}
  /\ installedHash' = NoHash
  /\ Goto(s, "c_finish")
  /\ UNCHANGED <<status, storeStatus, currentTemplate, persistence, hasFsm, hasTm,
                 hasPreview, fsmVars, sandboxVars, storage, editorVars, timerVars, listeners, watcher>>
  /\ UNCHANGED <<made, staticVars>>

\* The references are dropped and the stores reset.
CleanupFinish(s) ==
  /\ At(s, "c_finish")
  /\ hasFsm' = FALSE
  /\ hasPreview' = FALSE
  /\ hasTm' = FALSE
  /\ currentTemplate' = NoTemplate
  /\ installedHash' = NoHash
  /\ storeStatus' = "initializing"
  /\ storeTemplate' = NoTemplate
  /\ listeners' = NoListeners
  /\ Goto(s, "done")
  /\ UNCHANGED <<status, persistence, fsmVars, sandboxVars, storage, editorVars,
                 timerVars, watcher>>
  /\ UNCHANGED <<made, bootPromise, boots, templateCache, now>>

\* ---------------------------------------------------------------- auto-save

\* The setTimeout callback of initialize: enableAutoSave on this.persistence if
\* the engine is still initialized.
ArmAutoSave ==
  /\ pendingArm > 0
  /\ pendingArm' = pendingArm - 1
  /\ curTimer' = (curTimer \/ (hasFsm /\ currentTemplate # NoTemplate))
  /\ UNCHANGED <<engineVars, fsmVars, sandboxVars, storage, editorVars, autoSave, listeners, watcher,
                 orphanTimers, tick, calls>>
  /\ UNCHANGED <<made, staticVars>>

\* The storage keys of the PersistenceManagers whose interval runs.
Timers == (IF curTimer THEN {storageKey(persistence)} ELSE {}) \cup orphanTimers

\* An interval fires: the callback starts getAllFiles.
TickStart(k) ==
  /\ tick.pc = "idle"
  /\ k \in Timers
  /\ hasFsm /\ currentTemplate # NoTemplate
  /\ tick' = [pc |-> "read", key |-> k, listing |-> getFileTree(fs)]
  /\ UNCHANGED <<engineVars, fsmVars, sandboxVars, storage, editorVars, autoSave, listeners, watcher,
                 pendingArm, curTimer, orphanTimers, calls, staticVars>>

\* The callback reads the files, builds the snapshot and the interval's
\* PersistenceManager saves it.
TickFinish ==
  /\ tick.pc = "read"
  /\ LET r == readAll(fs, fileCache, tick.listing)
     IN  /\ fileCache' = r.cache
         /\ storage' = IF currentTemplate = NoTemplate THEN storage
                       ELSE Overwrite(storage, [k \in {tick.key} |-> Snapshot(r.files)])
  /\ tick' = IdleTick
  /\ UNCHANGED <<engineVars, currentFiles, sandboxVars, editorVars, autoSave, listeners, watcher,
                 pendingArm, curTimer, orphanTimers, calls>>
  /\ UNCHANGED <<made, staticVars>>

\* The user's contents among the files that switchTemplate saved under the
\* template it left.
Edits(c) ==
  [k \in {IdOf(c.from)} |->
     Restrict(c.saved.files, {p \in DOMAIN c.saved.files : c.saved.files[p] \in UserContents})]

\* The caller takes the settled promise.
Return(s) ==
  /\ At(s, "done") \/ At(s, "failed")
  /\ calls' = [calls EXCEPT ![s] = IdleCall]
  /\ made' = [made EXCEPT !.last = [op |-> calls[s].op, mode |-> calls[s].mode,
                                     ok |-> calls[s].pc = "done"],
                          !.io = [arg |-> calls[s].arg, ret |-> calls[s].ret],
                          !.kept = IF calls[s].op = "switchTemplate" /\ calls[s].mode = "diff"
                                      /\ calls[s].pc = "done"
                                   THEN Overwrite(@, Edits(calls[s]))
                                   ELSE @]
  /\ UNCHANGED <<engineVars, fsmVars, sandboxVars, storage, editorVars, timerVars, listeners, watcher>>
  /\ UNCHANGED staticVars

\* --------------------------------------------------------- the user's actions

\* updateFile(path, content): FileSystemManager.writeFile writes through and
\* deletes the path's cache entry.
UpdateFile(p, c) ==
  /\ hasFsm
  /\ CanWrite(fs, p)
  /\ fs' = fsWriteFile(fs, p, c)
  /\ fileCache' = Without(fileCache, {p})
  /\ UNCHANGED <<engineVars, currentFiles, instance, devServers, serverReady, processes, storage,
                 editorVars, timerVars, listeners, watcher, calls, staticVars>>

\* mountEditor(container): the editor is created and the entry file opened
\* (read through the cache).
MountEditor ==
  /\ ~editorView
  /\ editorView' = TRUE
  /\ IF hasFsm /\ currentTemplate # NoTemplate
        /\ TemplateOf(currentTemplate).entryFile \in DOMAIN fileCache \cup DOMAIN fs.files
     THEN LET e == TemplateOf(currentTemplate).entryFile
          IN  /\ fileCache' = readAll(fs, fileCache, {e}).cache
              /\ activeFile' = e
              /\ openTabs' = openTabs \cup {e}
     ELSE UNCHANGED <<fileCache, activeFile, openTabs>>
  /\ UNCHANGED <<engineVars, currentFiles, sandboxVars, storage, timerVars, listeners, watcher, calls,
                 staticVars>>

\* The steps of the calls in flight in slot s.
Step(s) ==
  \/ ClearStep(s)
  \/ InitCleared(s)
  \/ InitBoot(s)
  \/ InitBootFail(s)
  \/ InitMount(s)
  \/ InitMountFail(s)
  \/ InitLoad(s)
  \/ InstallGate(s)
  \/ NpmExit(s)
  \/ NpmFail(s)
  \/ InitPreview(s)
  \/ InitPreviewFail(s)
  \/ SaveList(s)
  \/ SaveRead(s)
  \/ SwRemove(s)
  \/ SwPrune(s)
  \/ SwWrite(s)
  \/ SwKill(s)
  \/ SwStart(s)
  \/ SwLoad(s)
  \/ Return(s)

\* The steps of cleanup after its first.
CleanupStep(s) ==
  \/ CleanupCleared(s)
  \/ CleanupFinish(s)

\* A call is made: the callers make n calls at most.
CalledUpTo(n) ==
  /\ made.calls < n
  /\ made' = [made EXCEPT !.calls = @ + 1]

Called == CalledUpTo(MaxCalls)

\* The user acts: MaxEdits times at most.
Edited ==
  /\ made.edits < MaxEdits
  /\ made' = [made EXCEPT !.edits = @ + 1]

\* An interval fires: MaxTicks times at most.
Ticked ==
  /\ made.ticks < MaxTicks
  /\ made' = [made EXCEPT !.ticks = @ + 1]

\* One caller that awaits every call before it makes the next.
Sequential ==
  \/ \E t \in TemplateIds : Idle /\ Called /\ Initialize(1, t)
  \/ \E t \in TemplateIds : Idle /\ Called /\ SwitchTemplate(1, t)
  \/ Idle /\ Called /\ SaveSnapshot(1)
  \/ Idle /\ Called /\ Cleanup(1)
  \/ \E p \in UserPaths, c \in UserContents : Idle /\ Edited /\ UpdateFile(p, c)
  \/ Idle /\ Edited /\ MountEditor
  \/ Step(1)
  \/ CleanupStep(1)

Next == Sequential

Spec == Init /\ [][Next]_vars

\* The same caller over an engine constructed with autoSave: the timers of
\* the event loop fire between any two steps.
InitAuto == InitCommon /\ autoSave = TRUE /\ listeners = EngineListeners

NextAuto ==
  \/ Sequential
  \/ ArmAutoSave
  \/ \E k \in Timers : Ticked /\ TickStart(k)
  \/ TickFinish

SpecAuto == InitAuto /\ [][NextAuto]_vars

\* ------------------------------------------- the TemplateManager on its own

\* A TemplateManager after updateCurrentState(A) over a sandbox that has A
\* mounted, for every tree A of DiffTrees.
InitDiff ==
  /\ status = "initializing"
  /\ storeStatus = "initializing"
  /\ currentTemplate = NoTemplate
  /\ persistence = "default"
  /\ hasFsm = FALSE
  /\ hasTm = FALSE
  /\ hasPreview = FALSE
  /\ installedHash = NoHash
  /\ fileCache = EmptyMap
  /\ \E tree \in DiffTrees :
       /\ currentFiles = updateCurrentState(tree)
       /\ fs = fsMount(EmptyFs, flattenFileTree(tree, << >>))
  /\ instance = TRUE
  /\ devServers = 0
  /\ serverReady = NoServerReady
  /\ processes = 0
  /\ storage = [k \in {} |-> 0]
  /\ editorView = FALSE
  /\ activeFile = NoPath
  /\ openTabs = {}
  /\ autoSave = FALSE
  /\ pendingArm = 0
  /\ curTimer = FALSE
  /\ orphanTimers = {}
  /\ tick = IdleTick
  /\ calls = [s \in Slots |-> IdleCall]
  /\ bootPromise = NoPromise
  /\ boots = 0
  /\ templateCache = EmptyCache
  /\ storeTemplate = NoTemplate
  /\ now = 0
  /\ listeners = NoListeners
  /\ watcher = NoWatcher
  /\ made = NothingMade

\* computeDiff(targetTemplate)
TmComputeDiff(s, tree) ==
  /\ calls[s].op = "none"
  /\ calls' = [calls EXCEPT ![s] =
                 [IdleCall EXCEPT !.op = "computeDiff", !.pc = "tm_apply",
                                  !.atCall = currentFiles,
                                  !.target = flattenFileTree(tree, << >>),
                                  !.diff = computeDiff(currentFiles,
                                                       flattenFileTree(tree, << >>))]]
  /\ UNCHANGED <<engineVars, fsmVars, sandboxVars, storage, editorVars, timerVars, listeners, watcher,
                 staticVars, made>>

\* applyDiff(diff, targetTemplate)
TmApplyDiff(s) ==
  /\ At(s, "tm_apply")
  /\ LET r == applyDiff(fs, currentFiles, calls[s].diff, calls[s].target)
     IN  /\ fs' = r.fs
         /\ currentFiles' = r.currentFiles
         /\ calls' = [calls EXCEPT ![s] = [@ EXCEPT !.pc = "tm_update",
                                                    !.pruned = r.pruned]]
  /\ UNCHANGED <<engineVars, fileCache, instance, devServers, serverReady, processes, storage,
                 editorVars, timerVars, listeners, watcher, staticVars, made>>

\* updateCurrentState(targetTemplate)
TmUpdateCurrentState(s) ==
  /\ At(s, "tm_update")
  /\ currentFiles' = calls[s].target
  /\ Goto(s, "tm_check")
  /\ UNCHANGED <<engineVars, fileCache, sandboxVars, storage, editorVars, timerVars, listeners, watcher,
                 staticVars, made>>

\* computeDiff(targetTemplate) once more, against the same target.
TmComputeAgain(s) ==
  /\ At(s, "tm_check")
  /\ calls' = [calls EXCEPT ![s] =
                 [@ EXCEPT !.pc = "done",
                           !.diff = computeDiff(currentFiles, calls[s].target)]]
  /\ UNCHANGED <<engineVars, fsmVars, sandboxVars, storage, editorVars, timerVars, listeners, watcher,
                 staticVars, made>>

NextDiff ==
  \/ \E tree \in DiffTrees : TmComputeDiff(1, tree)
  \/ TmApplyDiff(1)
  \/ TmUpdateCurrentState(1)
  \/ TmComputeAgain(1)
  \/ Return(1)

SpecDiff == InitDiff /\ [][NextDiff]_vars

\* The activation switchTemplate(t) would be now.
ModeOf(t) ==
  IF currentTemplate = NoTemplate \/ ~hasTm \/ ~hasFsm THEN "full"
  ELSE IF IdOf(currentTemplate) = IdOf(t) THEN "noop" ELSE "diff"

\* Callers that do not await: an activation is called while activations of
\* the same kind are in flight in the other slots.
Overlapping(s, op, mode) ==
  \A r \in Slots \ {s} :
    calls[r].op # "none" => calls[r].op = op /\ calls[r].mode = mode

NextConc ==
  \/ \E s \in Slots, t \in TemplateIds :
       Overlapping(s, "initialize", "full") /\ CalledUpTo(MaxConcCalls)
         /\ Initialize(s, t)
  \/ \E s \in Slots, t \in TemplateIds :
       Overlapping(s, "switchTemplate", ModeOf(t)) /\ CalledUpTo(MaxConcCalls)
         /\ SwitchTemplate(s, t)
  \/ \E p \in UserPaths, c \in UserContents : Idle /\ Edited /\ UpdateFile(p, c)
  \/ \E s \in Slots : Step(s)

SpecConc == Init /\ [][NextConc]_vars

\* ------------------------------------- engines over the one sandbox, and time

\* new PlaygroundEngine(options) takes the place of the engine in use: every
\* field of the engine, its managers and its editor are new, while the
\* WebContainer, its files and processes, the template cache, the stores and
\* localStorage are what they were.
Construct ==
  /\ status' = "initializing"
  /\ currentTemplate' = NoTemplate
  /\ NewPersistence("default")
  /\ hasFsm' = FALSE
  /\ hasTm' = FALSE
  /\ hasPreview' = FALSE
  /\ installedHash' = NoHash
  /\ fileCache' = EmptyMap
  /\ currentFiles' = EmptyMap
  /\ processes' = 0
  /\ editorView' = FALSE
  /\ activeFile' = NoPath
  /\ openTabs' = {}
  /\ UNCHANGED <<storeStatus, instance, fs, devServers, serverReady, storage, autoSave, listeners, watcher, pendingArm,
                 tick, calls, staticVars>>

\* An engine is constructed (it counts as a call): the new engine has run no
\* install gate.
Constructed ==
  /\ made.calls < MaxCalls
  /\ made' = [made EXCEPT !.calls = @ + 1, !.gate = NoGate]

\* More than the ttl of the template cache passes.
TimePasses ==
  /\ now < MaxAdvances * (CacheTtl + 1)
  /\ now' = now + CacheTtl + 1
  /\ UNCHANGED <<engineVars, fsmVars, sandboxVars, storage, editorVars, timerVars, listeners, watcher,
                 calls, bootPromise, boots, templateCache, storeTemplate, made>>

\* One caller that awaits every call, constructs engines and passes templates
\* of which two have the same id.
NextEngines ==
  \/ \E t \in TemplateRefs : Idle /\ Called /\ Initialize(1, t)
  \/ \E t \in TemplateRefs : Idle /\ Called /\ SwitchTemplate(1, t)
  \/ Idle /\ Constructed /\ Construct
  \/ Idle /\ TimePasses
  \/ Step(1)

SpecEngines == Init /\ [][NextEngines]_vars

\* ------------------------------------------------ the boot of the sandbox

\* What boot() and preboot() leave alone.
BootFrame ==
  UNCHANGED <<engineVars, fsmVars, fs, devServers, serverReady, processes, storage, editorVars,
              timerVars, listeners, watcher, templateCache, storeTemplate, now>>

\* A check of the promise that never finds one.
BootNeverInFlight == FALSE

\* `if (WebContainerManager.bootPromise)`: a promise is there, settled or not.
BootInFlight == bootPromise.st # "none"

\* WebContainerManager.bootPromise = WebContainer.boot()
StartBoot ==
  /\ boots < MaxBoots
  /\ boots' = boots + 1
  /\ bootPromise' = [st |-> "pending", wc |-> boots + 1]

\* boot() up to its await: the instance there is, the promise there is, or a
\* boot of its own.
Boot(s) ==
  /\ calls[s].op = "none"
  /\ IF instance
     THEN /\ calls' = [calls EXCEPT ![s] =
                         [IdleCall EXCEPT !.op = "boot", !.pc = "done",
                                          !.awaits = bootPromise]]
          /\ UNCHANGED <<bootPromise, boots>>
     ELSE IF BootInFlight
     THEN /\ calls' = [calls EXCEPT ![s] =
                         [IdleCall EXCEPT !.op = "boot", !.pc = "b_follow",
                                          !.awaits = bootPromise]]
          /\ UNCHANGED <<bootPromise, boots>>
     ELSE /\ StartBoot
          /\ calls' = [calls EXCEPT ![s] =
                         [IdleCall EXCEPT !.op = "boot", !.pc = "b_own",
                                          !.awaits = bootPromise']]
  /\ UNCHANGED instance
  /\ BootFrame

\* preboot() up to its await.
Preboot(s) ==
  /\ calls[s].op = "none"
  /\ IF ~BootInFlight /\ ~instance
     THEN /\ StartBoot
          /\ calls' = [calls EXCEPT ![s] =
                         [IdleCall EXCEPT !.op = "preboot", !.pc = "b_own",
                                          !.awaits = bootPromise']]
     ELSE /\ calls' = [calls EXCEPT ![s] =
                         [IdleCall EXCEPT !.op = "preboot", !.pc = "done"]]
          /\ UNCHANGED <<bootPromise, boots>>
  /\ UNCHANGED instance
  /\ BootFrame

\* The runtime settles the pending boot: the reactions of the callers that
\* await this promise are queued with its outcome.
BootSettles(outcome) ==
  /\ bootPromise.st = "pending"
  /\ bootPromise' = [bootPromise EXCEPT !.st = outcome]
  /\ calls' = [s \in Slots |->
                 IF calls[s].pc \in {"b_own", "b_follow"} /\ calls[s].awaits = bootPromise
                 THEN [calls[s] EXCEPT !.awaits.st = outcome]
                 ELSE calls[s]]
  /\ made' = IF outcome = "rejected" THEN [made EXCEPT !.rejected = @ + 1] ELSE made
  /\ UNCHANGED <<instance, boots>>
  /\ BootFrame

\* The caller that started the boot resumes: the instance is assigned, or the
\* catch block of boot() drops the promise (preboot has no catch block).
BootOwnResumes(s) ==
  /\ At(s, "b_own")
  /\ calls[s].awaits.st # "pending"
  /\ IF calls[s].awaits.st = "resolved"
     THEN /\ instance' = TRUE
          /\ Goto(s, "done")
          /\ UNCHANGED bootPromise
     ELSE /\ bootPromise' = IF calls[s].op = "boot" THEN NoPromise ELSE bootPromise
          /\ Goto(s, "failed")
          /\ UNCHANGED instance
  /\ UNCHANGED <<boots, made>>
  /\ BootFrame

\* A caller that was handed the promise in flight resumes with its outcome.
BootFollowerResumes(s) ==
  /\ At(s, "b_follow")
  /\ calls[s].awaits.st # "pending"
  /\ Goto(s, IF calls[s].awaits.st = "resolved" THEN "done" ELSE "failed")
  /\ UNCHANGED <<instance, bootPromise, boots, made>>
  /\ BootFrame

\* Callers of boot() and preboot() that do not wait for one another.
NextBoot ==
  \/ \E s \in Slots : Called /\ Boot(s)
  \/ \E s \in Slots : Called /\ Preboot(s)
  \/ \E outcome \in {"resolved", "rejected"} : BootSettles(outcome)
  \/ \E s \in Slots : BootOwnResumes(s)
  \/ \E s \in Slots : BootFollowerResumes(s)
  \/ \E s \in Slots : Return(s)

SpecBoot == Init /\ [][NextBoot]_vars

\* ------------------------------------------------- save, clean up, come back

\* One caller that awaits every call, over one template: it initializes,
\* mounts the editor, saves a snapshot, cleans up and initializes again.
NextRestore ==
  \/ Idle /\ CalledUpTo(MaxRestoreCalls) /\ Initialize(1, "react")
  \/ Idle /\ CalledUpTo(MaxRestoreCalls) /\ SaveSnapshot(1)
  \/ Idle /\ CalledUpTo(MaxRestoreCalls) /\ Cleanup(1)
  \/ \E p \in UserPaths, c \in UserContents : Idle /\ Edited /\ UpdateFile(p, c)
  \/ Idle /\ Edited /\ MountEditor
  \/ ClearStep(1)
  \/ InitCleared(1)
  \/ InitBoot(1)
  \/ InitBootFail(1)
  \/ InitMount(1)
  \/ InitMountFail(1)
  \/ InitLoad(1)
  \/ InstallGate(1)
  \/ NpmExit(1)
  \/ NpmFail(1)
  \/ InitPreview(1)
  \/ InitPreviewFail(1)
  \/ SaveList(1)
  \/ SaveRead(1)
  \/ Return(1)
  \/ CleanupStep(1)

SpecRestore == Init /\ [][NextRestore]_vars

\* ------------------------------------------------- the parts on their own

\* A serialisation that knows strings only and does not escape them.
stringifyRaw(v) ==
  IF v.t = "str" THEN <<"\"">> \o v.v \o <<"\"">> ELSE <<"null">>

\* The text of a JavaScript value, a sequence of characters.  A value is a
\* record: null, a number (a natural), a string (a sequence of characters),
\* an array (a sequence of values) or an object (a sequence of <<key, value>>
\* in property order).  A character is any string; the quote, the backslash,
\* the brackets, the colon, the comma and the digits are those of JSON.
RECURSIVE stringify(_)
stringify(v) ==
  LET RECURSIVE digits(_)
      digits(n) == IF n < 10 THEN <<ToString(n)>>
                   ELSE digits(n \div 10) \o <<ToString(n % 10)>>
      RECURSIVE escape(_)
      escape(str) ==
        IF str = << >> THEN << >>
        ELSE (IF Head(str) \in {"\"", "\\"} THEN <<"\\", Head(str)>> ELSE <<Head(str)>>)
             \o escape(Tail(str))
      quote(str) == <<"\"">> \o escape(str) \o <<"\"">>
      RECURSIVE join(_)
      join(texts) ==
        IF texts = << >> THEN << >>
        ELSE IF Len(texts) = 1 THEN texts[1]
        ELSE texts[1] \o <<",">> \o join(Tail(texts))
  IN  CASE v.t = "null" -> <<"null">>
        [] v.t = "num" -> digits(v.v)
        [] v.t = "str" -> quote(v.v)
        [] v.t = "arr" ->
             <<"[">> \o join([i \in 1..Len(v.v) |-> stringify(v.v[i])]) \o <<"]">>
        [] v.t = "obj" ->
             <<"{">> \o join([i \in 1..Len(v.v) |->
                                quote(v.v[i][1]) \o <<":">> \o stringify(v.v[i][2])])
                    \o <<"}">>

\* JSON.parse: the value of a text, or ok = FALSE where it throws a
\* SyntaxError.  A key that comes twice keeps its first place and its last
\* value.
parse(text) ==
  LET Digits == <<"0", "1", "2", "3", "4", "5", "6", "7", "8", "9">>
      isDigit(i) == i <= Len(text) /\ \E d \in 1..10 : Digits[d] = text[i]
      is(i, c) == i <= Len(text) /\ text[i] = c
      bad == [ok |-> FALSE, v |-> [t |-> "null"], i |-> 0]
      put(members, k, val) ==
        IF \E j \in 1..Len(members) : members[j][1] = k
        THEN [j \in 1..Len(members) |->
                IF members[j][1] = k THEN <<k, val>> ELSE members[j]]
        ELSE Append(members, <<k, val>>)
      RECURSIVE number(_, _)
      number(i, n) ==
        IF isDigit(i)
        THEN number(i + 1, 10 * n + (CHOOSE d \in 1..10 : Digits[d] = text[i]) - 1)
        ELSE [ok |-> TRUE, v |-> [t |-> "num", v |-> n], i |-> i]
      RECURSIVE string(_, _)
      string(i, acc) ==
        IF i > Len(text) THEN bad
        ELSE IF text[i] = "\"" THEN [ok |-> TRUE, v |-> [t |-> "str", v |-> acc], i |-> i + 1]
        ELSE IF text[i] = "\\"
        THEN IF is(i + 1, "\"") \/ is(i + 1, "\\")
             THEN string(i + 2, Append(acc, text[i + 1]))
             ELSE bad
        ELSE string(i + 1, Append(acc, text[i]))
      RECURSIVE value(_), elements(_, _), members(_, _)
      value(i) ==
        IF i > Len(text) THEN bad
        ELSE IF text[i] = "null" THEN [ok |-> TRUE, v |-> [t |-> "null"], i |-> i + 1]
        ELSE IF isDigit(i) THEN number(i, 0)
        ELSE IF text[i] = "\"" THEN string(i + 1, << >>)
        ELSE IF text[i] = "["
        THEN IF is(i + 1, "]") THEN [ok |-> TRUE, v |-> [t |-> "arr", v |-> << >>], i |-> i + 2]
             ELSE elements(i + 1, << >>)
        ELSE IF text[i] = "{"
        THEN IF is(i + 1, "}") THEN [ok |-> TRUE, v |-> [t |-> "obj", v |-> << >>], i |-> i + 2]
             ELSE members(i + 1, << >>)
        ELSE bad
      elements(i, acc) ==
        LET e == value(i)
        IN  IF ~e.ok THEN bad
            ELSE IF is(e.i, ",") THEN elements(e.i + 1, Append(acc, e.v))
            ELSE IF is(e.i, "]")
            THEN [ok |-> TRUE, v |-> [t |-> "arr", v |-> Append(acc, e.v)], i |-> e.i + 1]
            ELSE bad
      members(i, acc) ==
        LET k == IF is(i, "\"") THEN string(i + 1, << >>) ELSE bad
            e == IF k.ok /\ is(k.i, ":") THEN value(k.i + 1) ELSE bad
        IN  IF ~e.ok THEN bad
            ELSE IF is(e.i, ",") THEN members(e.i + 1, put(acc, k.v.v, e.v))
            ELSE IF is(e.i, "}")
            THEN [ok |-> TRUE, v |-> [t |-> "obj", v |-> put(acc, k.v.v, e.v)], i |-> e.i + 1]
            ELSE bad
      r == value(1)
  IN  IF r.ok /\ r.i = Len(text) + 1 THEN [ok |-> TRUE, v |-> r.v]
      ELSE [ok |-> FALSE, v |-> [t |-> "null"]]

\* The well-formed snapshots a caller hands to PersistenceManager.saveSnapshot:
\* paths and contents with quotes and backslashes, the empty content, no open
\* tab, no active file.
WellFormedSnapshots ==
  LET str(x) == [t |-> "str", v |-> x]
      page == <<"index.html">>
      odd == <<"a", "\"", "b">>
      snapshot(files, tabs, active) ==
        [t |-> "obj",
         v |-> << <<(<<"version">>), [t |-> "num", v |-> 1]>>,
                  <<(<<"timestamp">>), [t |-> "num", v |-> 1730419200]>>,
                  <<(<<"files">>), [t |-> "obj", v |-> files]>>,
                  <<(<<"openTabs">>), [t |-> "arr", v |-> tabs]>>,
                  <<(<<"activeFile">>), active>>,
                  <<(<<"templateId">>), str(<<"react">>)>> >>]
  IN  {snapshot(<< >>, << >>, [t |-> "null"]),
       snapshot(<< <<page, str(<< >>)>> >>, <<str(page)>>, str(page)),
       snapshot(<< <<odd, str(<<"\\", "\"">>)>>, <<page, str(<<"x", "\\">>)>> >>,
                <<str(odd), str(page)>>, str(odd))}

\* PersistenceManager(id).saveSnapshot(snapshot): the text is stored, or
\* setItem throws and the call is rejected.
PmSaveSnapshot(s, id, snapshot, stored) ==
  /\ calls[s].op = "none"
  /\ calls' = [calls EXCEPT ![s] =
                 [IdleCall EXCEPT !.op = "roundTrip", !.arg = <<id, snapshot>>,
                                  !.pc = IF stored THEN "p_saved" ELSE "failed"]]
  /\ storage' = IF stored
                THEN Overwrite(storage, [k \in {storageKey(id)} |-> stringify(snapshot)])
                ELSE storage
  /\ UNCHANGED <<engineVars, fsmVars, sandboxVars, editorVars, timerVars, listeners, watcher, staticVars>>

\* PersistenceManager(id).loadSnapshot(), by the caller that has saved or by
\* one that has not: null for no text, for the empty text and for a text that
\* is not JSON.
PmLoadSnapshot(s, id) ==
  /\ \/ calls[s].op = "none"
     \/ At(s, "p_saved") /\ calls[s].arg[1] = id
  /\ LET key == storageKey(id)
         serialized == IF key \in DOMAIN storage THEN storage[key] ELSE << >>
         parsed == parse(serialized)
         got == IF serialized = << >> \/ ~parsed.ok THEN [t |-> "null"] ELSE parsed.v
     IN  calls' = [calls EXCEPT ![s] =
                     [@ EXCEPT !.op = IF @ = "none" THEN "loadSnapshot" ELSE @,
                               !.pc = "done", !.ret = <<got>>]]
  /\ UNCHANGED <<engineVars, fsmVars, sandboxVars, storage, editorVars, timerVars, listeners, watcher,
                 staticVars>>

\* The options of a TemplateCache of its own.
PartsCache == [ttl |-> PartsTtl, maxSize |-> PartsMaxSize]

\* templateCache.get(id)
CacheGet(s, id) ==
  /\ calls[s].op = "none"
  /\ LET r == cacheGet(templateCache, PartsCache, id, now)
     IN  /\ templateCache' = r.cache
         /\ calls' = [calls EXCEPT ![s] =
                        [IdleCall EXCEPT !.op = "get", !.pc = "done", !.arg = <<id>>,
                                         !.ret = <<r.template>>]]
  /\ UNCHANGED <<engineVars, fsmVars, sandboxVars, storage, editorVars, timerVars, listeners, watcher,
                 bootPromise, boots, storeTemplate, now>>

\* templateCache.set(id, template)
CacheSet(s, id) ==
  /\ calls[s].op = "none"
  /\ templateCache' = cacheSet(templateCache, PartsCache, id, id, now)
  /\ calls' = [calls EXCEPT ![s] =
                 [IdleCall EXCEPT !.op = "set", !.pc = "done", !.arg = <<id>>]]
  /\ UNCHANGED <<engineVars, fsmVars, sandboxVars, storage, editorVars, timerVars, listeners, watcher,
                 bootPromise, boots, storeTemplate, now>>

\* A writeFile that leaves the cache entry of the path in place.
keepEntry(cache, p) == cache

\* this.fileCache.delete(normalizedPath)
invalidate(cache, p) == Without(cache, {p})

\* FileSystemManager.readFile(p): the cached content if the cache has an entry
\* for the path, else the content read from the sandbox, which is cached; the
\* call is rejected if the sandbox has no such file.  ret tells where the
\* content came from.
FsmReadFile(s, p) ==
  /\ calls[s].op = "none"
  /\ LET c == [IdleCall EXCEPT !.op = "readFile", !.arg = <<p>>]
     IN  IF p \in DOMAIN fileCache
         THEN /\ calls' = [calls EXCEPT ![s] =
                             [c EXCEPT !.pc = "done", !.ret = <<fileCache[p], "cache">>]]
              /\ UNCHANGED fileCache
         ELSE IF p \in DOMAIN fs.files
         THEN /\ calls' = [calls EXCEPT ![s] =
                             [c EXCEPT !.pc = "done", !.ret = <<fs.files[p], "sandbox">>]]
              /\ fileCache' = Overwrite(fileCache, [q \in {p} |-> fs.files[p]])
         ELSE /\ calls' = [calls EXCEPT ![s] = [c EXCEPT !.pc = "failed"]]
              /\ UNCHANGED fileCache
  /\ UNCHANGED <<engineVars, currentFiles, sandboxVars, storage, editorVars, timerVars, listeners, watcher,
                 staticVars>>

\* FileSystemManager.writeFile(p, content): the sandbox write, then the cache
\* entry is deleted; the call is rejected if the sandbox cannot write the path.
FsmWriteFile(s, p, content) ==
  /\ calls[s].op = "none"
  /\ LET c == [IdleCall EXCEPT !.op = "writeFile", !.arg = <<p, content>>]
     IN  IF CanWrite(fs, p)
         THEN /\ fs' = fsWriteFile(fs, p, content)
              /\ fileCache' = invalidate(fileCache, p)
              /\ calls' = [calls EXCEPT ![s] = [c EXCEPT !.pc = "done"]]
         ELSE /\ calls' = [calls EXCEPT ![s] = [c EXCEPT !.pc = "failed"]]
              /\ UNCHANGED <<fs, fileCache>>
  /\ UNCHANGED <<engineVars, currentFiles, instance, devServers, serverReady, processes, storage,
                 editorVars, timerVars, listeners, watcher, staticVars>>

\* The handlers a subscriber may add: plain ones, ones that throw, and the
\* wrapper once() builds, which removes itself after its handler returned.
Handlers ==
  {[id |-> 1, throws |-> FALSE, once |-> FALSE],
   [id |-> 2, throws |-> TRUE, once |-> FALSE],
   [id |-> 3, throws |-> FALSE, once |-> TRUE],
   [id |-> 4, throws |-> TRUE, once |-> TRUE]}

\* The handlers of an event, in the order of the Set.
handlersOf(ls, event) == IF event \in DOMAIN ls THEN ls[event] ELSE << >>

\* An emit with no try around the handler: the first exception ends the loop
\* and leaves emit.
RECURSIVE emitUnguarded(_, _)
emitUnguarded(ls, event) ==
  LET hs == handlersOf(ls, event)
      RECURSIVE run(_, _, _)
      run(i, invoked, left) ==
        IF i > Len(hs) THEN [invoked |-> invoked, threw |-> FALSE, handlers |-> left]
        ELSE IF hs[i].throws
        THEN [invoked |-> Append(invoked, hs[i].id), threw |-> TRUE, handlers |-> left]
        ELSE run(i + 1, Append(invoked, hs[i].id),
                 IF hs[i].once THEN SelectSeq(left, LAMBDA h : h # hs[i]) ELSE left)
  IN  run(1, << >>, hs)

\* EventEmitter.emit(event): forEach over the Set of handlers, each call in
\* its own try; the handlers invoked in order, whether emit threw, and the
\* handlers left (a once wrapper whose handler returned has removed itself).
RECURSIVE emit(_, _)
emit(ls, event) ==
  LET hs == handlersOf(ls, event)
      RECURSIVE run(_, _, _)
      run(i, invoked, left) ==
        IF i > Len(hs) THEN [invoked |-> invoked, threw |-> FALSE, handlers |-> left]
        ELSE run(i + 1, Append(invoked, hs[i].id),
                 IF hs[i].once /\ ~hs[i].throws
                 THEN SelectSeq(left, LAMBDA h : h # hs[i]) ELSE left)
  IN  run(1, << >>, hs)

\* EventEmitter.on(event, handler) and once(event, handler): the Set holds a
\* handler once.
EmOn(s, event, handler) ==
  /\ calls[s].op = "none"
  /\ LET hs == handlersOf(listeners, event)
     IN  listeners' = Overwrite(listeners,
                        [e \in {event} |->
                           IF \E i \in 1..Len(hs) : hs[i] = handler THEN hs
                           ELSE Append(hs, handler)])
  /\ calls' = [calls EXCEPT ![s] =
                 [IdleCall EXCEPT !.op = "on", !.pc = "done", !.arg = <<event, handler.id>>]]
  /\ UNCHANGED <<engineVars, fsmVars, sandboxVars, storage, editorVars, timerVars,
                 watcher, staticVars>>

\* EventEmitter.emit(event), called by this caller.
EmEmit(s, event) ==
  /\ calls[s].op = "none"
  /\ LET r == emit(listeners, event)
     IN  /\ listeners' = IF event \in DOMAIN listeners
                         THEN [listeners EXCEPT ![event] = r.handlers]
                         ELSE listeners
         /\ calls' = [calls EXCEPT ![s] =
                        [IdleCall EXCEPT !.op = "emit", !.arg = <<event>>,
                                         !.ret = <<r.invoked>>,
                                         !.pc = IF r.threw THEN "failed" ELSE "done"]]
  /\ UNCHANGED <<engineVars, fsmVars, sandboxVars, storage, editorVars, timerVars,
                 watcher, staticVars>>

\* A millisecond passes.
Elapse ==
  /\ now < MaxClock
  /\ now' = now + 1
  /\ UNCHANGED <<engineVars, fsmVars, sandboxVars, storage, editorVars, timerVars, listeners, watcher,
                 calls, bootPromise, boots, templateCache, storeTemplate, made>>

\* The paths read and written: one at the root, one under a directory the
\* sandbox lacks.
PartsPaths == {<<"index.html">>, <<"lib", "x.js">>}

\* One caller that awaits every call it makes on a PersistenceManager, on a
\* TemplateCache, on a FileSystemManager and on an EventEmitter.
NextParts ==
  \/ \E snapshot \in WellFormedSnapshots, stored \in BOOLEAN :
       Idle /\ CalledUpTo(MaxPartCalls) /\ PmSaveSnapshot(1, "react", snapshot, stored)
  \/ \E id \in {"react", "vue"} : Idle /\ CalledUpTo(MaxPartCalls) /\ PmLoadSnapshot(1, id)
  \/ \E id \in {"react", "vue"} :
       At(1, "p_saved") /\ PmLoadSnapshot(1, id) /\ UNCHANGED made
  \/ \E id \in TemplateRefs : Idle /\ CalledUpTo(MaxPartCalls) /\ CacheGet(1, id)
  \/ \E id \in TemplateRefs : Idle /\ CalledUpTo(MaxPartCalls) /\ CacheSet(1, id)
  \/ \E p \in PartsPaths : Idle /\ CalledUpTo(MaxPartCalls) /\ FsmReadFile(1, p)
  \/ \E p \in PartsPaths, content \in {Txt(""), Txt("one")} :
       Idle /\ CalledUpTo(MaxPartCalls) /\ FsmWriteFile(1, p, content)
  \/ \E handler \in Handlers :
       Idle /\ CalledUpTo(MaxPartCalls) /\ EmOn(1, "file:change", handler)
  \/ Idle /\ CalledUpTo(MaxPartCalls) /\ EmEmit(1, "file:change")
  \/ Idle /\ Elapse
  \/ Return(1)

\* The parts are newly constructed: the EventEmitter has no listener.
InitParts == InitCommon /\ autoSave = FALSE /\ listeners = NoListeners

SpecParts == InitParts /\ [][NextParts]_vars

\* --------------------------------------------- what the storage may hold

\* The values another page of the origin, or an older version of this one, may
\* have left under the key of the react template: a text that is not JSON, a
\* JSON number, objects that lack properties of a snapshot, a snapshot of
\* another template, one with a file under a directory the template lacks, and
\* a well-formed one.
StoredValues ==
  LET page == [p \in {<<"index.html">>} |-> Txt("stored")]
      deep == [p \in {<<"lib", "x.js">>} |-> Txt("stored")]
  IN  {[invalid |-> TRUE],
       [number |-> 5],
       [templateId |-> "react"],
       [templateId |-> "react", files |-> page],
       [templateId |-> "react", files |-> page, openTabs |-> {}],
       [templateId |-> "react", files |-> deep, openTabs |-> {}, activeFile |-> NoPath],
       [templateId |-> "vue", files |-> page, openTabs |-> {}, activeFile |-> NoPath],
       [templateId |-> "react", files |-> page, openTabs |-> {<<"index.html">>},
        activeFile |-> <<"index.html">>]}

\* localStorage.setItem by a page other than this engine's.
ForeignWrite(v) ==
  /\ storage' = Overwrite(storage, [k \in {storageKey("react")} |-> v])
  /\ UNCHANGED <<engineVars, fsmVars, sandboxVars, editorVars, timerVars, listeners, watcher, calls,
                 staticVars>>

\* One caller that awaits every call, over a storage it does not own: other
\* pages write it, and it may be full.
NextStored ==
  \/ \E t \in {"react", "vue"} : Idle /\ CalledUpTo(MaxStoredCalls) /\ Initialize(1, t)
  \/ \E t \in {"react", "vue"} : Idle /\ CalledUpTo(MaxStoredCalls) /\ SwitchTemplate(1, t)
  \/ \E v \in StoredValues : Idle /\ Edited /\ ForeignWrite(v)
  \/ Idle /\ Edited /\ MountEditor
  \/ SaveFail(1)
  \/ Step(1)

SpecStored == Init /\ [][NextStored]_vars

\* ------------------------------------------------------------------ claims

\* The files getAllFiles captures: the tree without node_modules and hidden
\* entries.
VisibleFiles(f) == Restrict(f.files, getFileTree(f))

InDiffSwitch(s) == calls[s].op = "switchTemplate" /\ calls[s].mode = "diff"

\* C10: an initialize call in which every step succeeds has emitted
\* status:change with exactly initializing, installing, ready, in this order,
\* and the engine's status is ready when the call returns.
C10_InitializeStatusOrder ==
  \A s \in Slots :
    calls[s].op = "initialize" /\ calls[s].pc = "done" =>
      /\ calls[s].log = <<"initializing", "installing", "ready">>
      /\ status = "ready"

\* An initialize call over an engine that was initialized before has returned
\* successfully.
C10_Witness ==
  /\ calls[1].op = "initialize"
  /\ calls[1].pc = "done"
  /\ calls[1].from # NoTemplate
  /\ Len(calls[1].log) = 3

\* C1: in every switchTemplate(B) made while a template A # B is active, a
\* snapshot of A that holds the sandbox's file contents (the files getAllFiles
\* captures) as they were at the time of the call is persisted under A's key
\* before the first removal or write of the switch: nothing has changed in the
\* sandbox while the snapshot is taken, and when the removals are about to
\* start the switch has persisted under A's key the contents of the call time.
C1_SnapshotBeforeMutation ==
  \A s \in Slots :
    InDiffSwitch(s) /\ calls[s].pc \in {"s_list", "s_read", "sw_remove"} =>
      /\ VisibleFiles(fs) = calls[s].atCall
      /\ calls[s].pc = "sw_remove" =>
           /\ calls[s].saved.key = storageKey(IdOf(calls[s].from))
           /\ calls[s].saved.files = calls[s].atCall

\* The files of template t that getAllFiles would list.
TemplateVisible(t) ==
  Restrict(Flat(TemplateOf(t)), {p \in DOMAIN Flat(TemplateOf(t)) : Listed(p)})

\* C2: after a successful switchTemplate from A to B with no stored snapshot
\* for B, the sandbox's tree outside node_modules and hidden entries holds
\* exactly the paths of B's flattened tree with B's contents.
C2_SwitchYieldsTarget ==
  \A s \in Slots :
    /\ InDiffSwitch(s)
    /\ calls[s].pc = "done"
    /\ storageKey(IdOf(calls[s].tpl)) \notin DOMAIN storage
    => VisibleFiles(fs) = TemplateVisible(calls[s].tpl)

\* The entries of a dependency map.
DepSet(d) == {d[i] : i \in 1..Len(d)}

\* C5: during a switchTemplate from A to B the installer is run iff the
\* dependencies and devDependencies of A and B differ, and when it is run the
\* manifest it installs from lists B's dependencies.
C5_InstallIffDepsDiffer ==
  \A s \in Slots :
    InDiffSwitch(s) /\ calls[s].pc = "done" =>
      /\ (calls[s].installs # {}) =
           dependenciesChanged(TemplateOf(calls[s].from), TemplateOf(calls[s].tpl))
      /\ \A m \in calls[s].installs :
           DepSet(m.deps) = DepSet(TemplateOf(calls[s].tpl).dependencies)

\* C6: a successful switchTemplate has killed every process spawned before it,
\* the previous dev server included, before it starts the new dev server: at
\* most one dev server is alive when the switch has started its own.
C6_OneDevServer ==
  \A s \in Slots :
    InDiffSwitch(s) /\ calls[s].pc \in {"sw_load", "done"} => devServers <= 1

\* A switchTemplate that changes the template is between its call and its
\* return.
SwitchInFlight ==
  \E s \in Slots : InDiffSwitch(s) /\ calls[s].pc \notin {"idle", "done", "failed"}

\* C8: auto-save is suspended for the whole of a switch: no step of an
\* auto-save callback (its listing of the filesystem, its reads and its
\* persisting of the snapshot) is taken between the start and the end of a
\* switchTemplate call.
C8_NoTickDuringSwitch == [][tick' # tick => ~SwitchInFlight]_vars

\* A snapshot save is in flight: a saveSnapshot call or an auto-save callback
\* has listed the filesystem and has not yet read and persisted.
SaveInFlight ==
  \/ tick.pc = "read"
  \/ \E s \in Slots : calls[s].op = "saveSnapshot" /\ calls[s].pc \in {"s_list", "s_read"}

\* cleanup removes an entry of the root in this step.
CleanupRemoves ==
  \E s \in Slots :
    /\ calls[s].op = "cleanup"
    /\ calls[s].pc = "c_clear"
    /\ fs' # fs

\* C9: cleanup() waits for any snapshot save in flight before it clears the
\* filesystem: no entry is removed by cleanup while a save is in flight.
C9_CleanupWaitsForSave == [][CleanupRemoves => ~SaveInFlight]_vars

\* The content of path p differs between the maps cur and tgt: it is in one
\* of them only, or in both with different contents.
Differs(cur, tgt, p) ==
  p \notin DOMAIN cur \/ p \notin DOMAIN tgt \/ cur[p] # tgt[p]

\* C3: the added, removed and modified lists of computeDiff are pairwise
\* disjoint, a path is in their union iff its content differs between the
\* current state and the target, and a path whose content is equal in both
\* is in none of them.
C3_DiffPartition ==
  \A s \in Slots :
    calls[s].op = "computeDiff" /\ calls[s].pc = "tm_apply" =>
      LET d == calls[s].diff
          cur == calls[s].atCall
          tgt == calls[s].target
      IN  /\ d.added \cap d.removed = {}
          /\ d.added \cap d.modified = {}
          /\ d.removed \cap d.modified = {}
          /\ d.added \cup d.removed \cup d.modified \subseteq DOMAIN cur \cup DOMAIN tgt
          /\ \A p \in DOMAIN cur \cup DOMAIN tgt :
               (p \in d.added \cup d.removed \cup d.modified) = Differs(cur, tgt, p)

\* C4: after applyDiff(computeDiff(A -> B)) and updateCurrentState(B), a
\* second computeDiff against B has empty added, removed and modified lists.
C4_DiffIdempotent ==
  \A s \in Slots :
    calls[s].op = "computeDiff" /\ calls[s].pc = "done" => calls[s].diff = EmptyDiff

\* The activations (initialize, switchTemplate) between call and return.
ActivationsInFlight ==
  {s \in Slots : /\ calls[s].op \in {"initialize", "switchTemplate"}
                 /\ calls[s].pc \notin {"idle", "done", "failed"}}

\* C7: at most one activation is in flight on an engine at any time: a second
\* call made while one is in flight is queued or supersedes the first, and
\* the two are never interleaved.
C7_OneActivationInFlight == Cardinality(ActivationsInFlight) <= 1

\* The calls that run the code of initialize: initialize itself and the
\* switchTemplate that delegates to it.
RunsInitialize(c) == c.op \in {"initialize", "switchTemplate"} /\ c.mode = "full"

\* C11: when a step of initialize fails (boot, mount, install or dev-server
\* start) the call ends rejected with the engine's status error and an error
\* event emitted (the status change to error and at least one error event),
\* and from the rejected call the engine takes no further step of its own:
\* the only step left is the caller taking the rejection.
C11_InitializeFailure ==
  [][\A s \in Slots :
       /\ RunsInitialize(calls'[s]) /\ calls'[s].fault # "none" =>
            /\ calls'[s].fault \in {"boot", "mount", "install", "preview"}
            /\ calls'[s].pc = "failed"
            /\ status' = "error"
            /\ calls'[s].errs >= 1
            /\ calls'[s].log[Len(calls'[s].log)] = "error"
       /\ RunsInitialize(calls[s]) /\ calls[s].pc = "failed" =>
            calls'[s] \in {calls[s], IdleCall}]_vars

\* An initialize call has been rejected at its last step, the start of the
\* dev server.
C11_Witness ==
  /\ RunsInitialize(calls[1])
  /\ calls[1].pc = "failed"
  /\ calls[1].fault = "preview"

\* C12: switchTemplate(T) called while T.id is the current template's id
\* changes nothing: from the call to its return the sandbox filesystem, the
\* processes and dev servers, the stored snapshots and the status stay as
\* they are.
C12_SameTemplateNoOp ==
  [][(\E s \in Slots : calls[s].mode = "noop" \/ calls'[s].mode = "noop") =>
       UNCHANGED <<fs, devServers, serverReady, processes, storage, status, storeStatus>>]_vars

\* switchTemplate has returned at once on the template that is current, on
\* an engine that is ready with its dev server running.
C12_Witness ==
  /\ calls[1].mode = "noop"
  /\ calls[1].pc = "done"
  /\ IdOf(currentTemplate) = IdOf(calls[1].tpl)
  /\ status = "ready"
  /\ devServers > 0

\* C13: after saveSnapshot(), then cleanup(), then a fresh initialize of the
\* same template, the editor's open tabs and active file are the openTabs and
\* activeFile of the stored snapshot: when an initialize that follows a
\* cleanup has returned and a snapshot of its template that records open
\* tabs is stored, the editor shows what the snapshot records.
C13_EditorStateRestored ==
  \A s \in Slots :
    /\ calls[s].op = "initialize"
    /\ calls[s].pc = "done"
    /\ made.last.op = "cleanup"
    /\ storageKey(IdOf(calls[s].tpl)) \in DOMAIN storage
    /\ storage[storageKey(IdOf(calls[s].tpl))].openTabs # {}
    => LET snapshot == storage[storageKey(IdOf(calls[s].tpl))]
       IN  /\ openTabs = snapshot.openTabs
           /\ activeFile = snapshot.activeFile

\* The install gate of call s runs in this step, for a template that has
\* dependencies.
GateRuns(s) ==
  /\ calls[s].pc \in {"i_install", "sw_install"}
  /\ calls'[s].pc # calls[s].pc
  /\ GateDeps(currentTemplate)[1] # NoDeps

\* The gate of call s invokes the package installer in this step.
InstallerInvoked(s) == calls'[s].pc \in {"i_npm", "sw_npm"}

\* C14: of two consecutive install-gate runs with identical dependency sets
\* only the first invokes the installer, and a run whose dependency sets
\* differ from those of the run before invokes it again: a run that follows
\* another on the engine invokes the installer unless the run before had the
\* same dependency sets and they have been installed.
C14_InstallOncePerDependencySet ==
  [][\A s \in Slots :
       GateRuns(s) /\ made.gate.ran =>
         (InstallerInvoked(s) =
            ~(/\ made.gate.deps = GateDeps(currentTemplate)
              /\ made.gate.installed))]_vars

\* C15: the install gate skips the installer only when the freshly computed
\* hash equals the hash recorded by the last successful installation and
\* node_modules exists in the sandbox.
C15_SkipNeedsHashAndNodeModules ==
  [][\A s \in Slots :
       GateRuns(s) /\ ~InstallerInvoked(s) =>
         /\ installedHash = Hash(GateDeps(currentTemplate)[1])
         /\ NodeModules \in fs.dirs]_vars

\* C18: when initialize(T) has returned, no file of another template that is
\* absent from T is left in the sandbox: every path of a template's tree that
\* is in the sandbox is a path of T's tree or of the snapshot restored for T.
C18_InitializeClearsPrevious ==
  \A s \in Slots :
    calls[s].op = "initialize" /\ calls[s].pc = "done" =>
      \A S \in TemplateRefs :
        \A p \in DOMAIN Flat(TemplateOf(S)) \cap DOMAIN fs.files :
          \/ p \in DOMAIN Flat(TemplateOf(calls[s].tpl))
          \/ /\ storageKey(IdOf(calls[s].tpl)) \in DOMAIN storage
             /\ p \in DOMAIN storage[storageKey(IdOf(calls[s].tpl))].files

\* C19: initialize mounts the resolved template (the unexpired cache entry
\* for template.id if there is one, the provided template otherwise): when
\* the mount is done the sandbox holds the files of the resolved template's
\* tree and they are recorded as the current mounted state, and the resolved
\* template is the cache's entry.
C19_ResolvedTemplateMounted ==
  \A s \in Slots :
    RunsInitialize(calls[s]) /\ calls[s].pc = "i_load" =>
      LET tree == Flat(TemplateOf(calls[s].resolved))
      IN  /\ currentFiles = tree
          /\ \A p \in DOMAIN tree : p \in DOMAIN fs.files /\ fs.files[p] = tree[p]
          /\ IdOf(calls[s].tpl) \in DOMAIN templateCache
          /\ templateCache[IdOf(calls[s].tpl)].template = calls[s].resolved

\* C16: when the diff application or the dependency installation of a
\* switchTemplate(B) fails, the engine falls back to a full initialize(B):
\* a switchTemplate call is never rejected out of its incremental path, only
\* out of a full initialization.
C16_SwitchFallsBackToInitialize ==
  \A s \in Slots :
    calls[s].op = "switchTemplate" /\ calls[s].pc = "failed" => calls[s].mode = "full"

\* C17: switchTemplate performs a full initialization when there is no prior
\* template and when the call before it was a switchTemplate that failed.
C17_FullInitWithoutUsablePrior ==
  [][\A s \in Slots :
       /\ calls[s].op = "none"
       /\ calls'[s].op = "switchTemplate"
       /\ \/ currentTemplate = NoTemplate
          \/ made.last.op = "switchTemplate" /\ ~made.last.ok
       => calls'[s].mode = "full"]_vars

\* A boot() call has returned an instance.
Received(s) == calls[s].op = "boot" /\ calls[s].pc = "done"

\* C20: concurrent boot() and preboot() callers share one boot in flight:
\* the runtime's boot has been invoked at most once more than boots have
\* failed, and every caller of boot() that has returned holds the instance of
\* the one boot that resolved.
C20_SharedBoot ==
  /\ boots <= made.rejected + 1
  /\ \A s \in Slots :
       Received(s) => calls[s].awaits = [st |-> "resolved", wc |-> bootPromise.wc]
  /\ \A s, r \in Slots :
       Received(s) /\ Received(r) => calls[s].awaits.wc = calls[r].awaits.wc

\* The caller that started the one boot has received its instance, and a
\* caller that was handed the promise in flight is about to receive the same.
C20_Witness ==
  /\ Received(1)
  /\ calls[2].op = "boot"
  /\ calls[2].pc = "b_follow"
  /\ calls[2].awaits = calls[1].awaits
  /\ instance
  /\ boots = 1

\* C21: cleanup() never throws, whatever the engine has been through, and a
\* cleanup called right after a cleanup leaves the engine, the editor, the
\* sandbox and the storage as it found them.
C21_CleanupSafe ==
  \A s \in Slots :
    calls[s].op = "cleanup" =>
      /\ calls[s].pc # "failed"
      /\ calls[s].pc = "done" /\ calls[s].before # << >> =>
           calls[s].before = <<EngineState>>

\* The second of two cleanups in a row has completed on an engine that had
\* booted the sandbox before the first.
C21_Witness ==
  /\ calls[1].op = "cleanup"
  /\ calls[1].pc = "done"
  /\ calls[1].before # << >>
  /\ instance
  /\ made.calls = 3

\* C22: a switchTemplate never fails because its snapshot could not be saved:
\* the failure is swallowed and the switch goes on.
C22_SaveFailureSwallowed ==
  \A s \in Slots :
    calls[s].op = "switchTemplate" /\ calls[s].pc = "failed" => calls[s].fault # "save"

\* After an initialize that completed, a switchTemplate was rejected, with
\* status error, by the failure of its save.
C22_Witness ==
  /\ made.last = [op |-> "initialize", mode |-> "full", ok |-> TRUE]
  /\ calls[1].op = "switchTemplate"
  /\ calls[1].pc = "failed"
  /\ calls[1].fault = "save"
  /\ status = "error"
  /\ storeStatus = "error"

\* The call in slot s has just run its snapshot restore.
Restores(s) ==
  /\ At(s, "i_load") \/ At(s, "sw_load")
  /\ calls'[s] # calls[s]

\* C23: whatever the storage holds under the template's key, the snapshot
\* restore of initialize and of switchTemplate lets the call go on, to the
\* install step in initialize and to ready in switchTemplate, and no failure
\* of the restore rejects the call.
C23_RestoreNeverAborts ==
  [][\A s \in Slots :
       Restores(s) =>
         /\ calls'[s].pc = (IF calls[s].pc = "i_load" THEN "i_install" ELSE "done")
         /\ calls'[s].fault = "none"
         /\ calls'[s].errs = 0]_vars

\* An initialize goes on to the install step after a restore that wrote the
\* files of a stored object and then failed on its missing openTabs.
C23_Witness ==
  /\ calls[1].op = "initialize"
  /\ calls[1].pc = "i_install"
  /\ ~calls[1].restored
  /\ storageKey("react") \in DOMAIN storage
  /\ DOMAIN storage[storageKey("react")] = {"templateId", "files"}
  /\ fs.files[<<"index.html">>] = Txt("stored")

\* The value of the property k of the object o, null where it has none.
Property(o, k) ==
  IF o.t = "obj" /\ \E j \in 1..Len(o.v) : o.v[j][1] = <<k>>
  THEN o.v[CHOOSE j \in 1..Len(o.v) : o.v[j][1] = <<k>>][2]
  ELSE [t |-> "null"]

\* The properties of an object as a set: two objects with the same properties
\* in another order are the same map.
Entries(o) == IF o.t = "obj" THEN {o.v[j] : j \in 1..Len(o.v)} ELSE {}

\* C24: a loadSnapshot that follows a saveSnapshot(s) on a store with the same
\* id returns a snapshot equal to s in version, timestamp, files, openTabs,
\* activeFile and templateId.
C24_SnapshotRoundTrip ==
  \A s \in Slots :
    calls[s].op = "roundTrip" /\ calls[s].pc = "done" =>
      LET saved == calls[s].arg[2]
          loaded == calls[s].ret[1]
      IN  /\ \A k \in {"version", "timestamp", "openTabs", "activeFile", "templateId"} :
               Property(loaded, k) = Property(saved, k)
          /\ Property(loaded, "files").t = "obj"
          /\ Entries(Property(loaded, "files")) = Entries(Property(saved, "files"))

\* A snapshot whose paths and contents hold quotes and backslashes, with two
\* open tabs, was saved and loaded.
C24_Witness ==
  /\ calls[1].op = "roundTrip"
  /\ calls[1].pc = "done"
  /\ Len(Property(calls[1].arg[2], "files").v) = 2
  /\ Len(Property(calls[1].arg[2], "openTabs").v) = 2
  /\ Property(calls[1].ret[1], "activeFile") = [t |-> "str", v |-> <<"a", "\"", "b">>]

\* C25: an insertion of a new id into a TemplateCache that holds maxSize
\* entries evicts exactly one entry, one with the smallest insertion timestamp,
\* and keeps the others as they were.
C25_EvictsOldest ==
  [][\A id \in TemplateRefs :
       /\ id \notin DOMAIN templateCache
       /\ id \in DOMAIN templateCache'
       /\ Cardinality(DOMAIN templateCache) = PartsMaxSize
       => \E old \in DOMAIN templateCache :
            /\ \A j \in DOMAIN templateCache :
                 templateCache[old].timestamp <= templateCache[j].timestamp
            /\ DOMAIN templateCache' = (DOMAIN templateCache \ {old}) \cup {id}
            /\ \A k \in DOMAIN templateCache \ {old} :
                 templateCache'[k] = templateCache[k]]_vars

\* maxSize+1 distinct ids have been inserted into the empty cache, at
\* different times, and maxSize entries are left.
C25_Witness ==
  /\ calls[1].op = "set"
  /\ made.calls = PartsMaxSize + 1
  /\ Cardinality(DOMAIN templateCache) = PartsMaxSize
  /\ templateCache[calls[1].arg[1]].seq = PartsMaxSize + 1
  /\ \A j, k \in DOMAIN templateCache :
       j # k => templateCache[j].timestamp # templateCache[k].timestamp

\* C26: get(id) returns the cached template exactly when the cache holds an
\* entry for id that is not older than the ttl, and then leaves the cache as
\* it is; otherwise it returns nothing and the cache holds no entry for id;
\* no get changes the timestamp of an entry.
C26_GetHonoursTtl ==
  [][calls[1].op = "none" /\ calls'[1].op = "get" =>
       LET id == calls'[1].arg[1]
           live == /\ id \in DOMAIN templateCache
                   /\ now - templateCache[id].timestamp <= PartsTtl
       IN  /\ live => /\ calls'[1].ret = <<templateCache[id].template>>
                       /\ templateCache' = templateCache
           /\ ~live => /\ calls'[1].ret = <<NoTemplate>>
                        /\ templateCache' = Without(templateCache, {id})
           /\ \A k \in DOMAIN templateCache' :
                templateCache'[k].timestamp = templateCache[k].timestamp]_vars

\* A get that followed a set, later than the ttl, returned nothing and left
\* the cache empty.
C26_Witness ==
  /\ calls[1].op = "get"
  /\ calls[1].ret = <<NoTemplate>>
  /\ made.calls = 2
  /\ made.last.op = "set"
  /\ templateCache = EmptyCache
  /\ now > PartsTtl

\* The call that slot 1 starts in this step.
Starts(op) == calls[1].op = "none" /\ calls'[1].op = op

\* The last call to return was op with these arguments, and was not rejected.
Followed(op, arg) == made.last.op = op /\ made.last.ok /\ made.io.arg = arg

\* C27: writeFile(p, c) leaves the read cache without an entry for p; the
\* readFile(p) that follows it returns c, read from the sandbox; and the
\* readFile(p) that follows that one returns the same content from the cache.
C27_WriteInvalidatesRead ==
  [][/\ Starts("writeFile") /\ calls'[1].pc = "done" =>
          calls'[1].arg[1] \notin DOMAIN fileCache'
     /\ \A p \in PartsPaths, c \in {Txt(""), Txt("one")} :
          /\ Starts("readFile") /\ calls'[1].arg = <<p>> /\ Followed("writeFile", <<p, c>>)
               => calls'[1].pc = "done" /\ calls'[1].ret = <<c, "sandbox">>
          /\ Starts("readFile") /\ calls'[1].arg = <<p>> /\ Followed("readFile", <<p>>)
               => /\ calls'[1].pc = "done"
                  /\ calls'[1].ret = <<made.io.ret[1], "cache">>
                  /\ UNCHANGED fs]_vars

\* The second of two reads that followed a write of the empty content has
\* returned it from the cache.
C27_Witness ==
  /\ calls[1].op = "readFile"
  /\ calls[1].pc = "done"
  /\ calls[1].ret = <<Txt(""), "cache">>
  /\ Followed("readFile", calls[1].arg)
  /\ made.io.ret = <<Txt(""), "sandbox">>
  /\ made.calls = 3

\* How many times n comes in the sequence seq.
Count(seq, n) == Cardinality({i \in 1..Len(seq) : seq[i] = n})

\* C28: emit invokes every handler registered for the event exactly once,
\* whichever of them throw, and does not throw.
C28_HandlersIsolated ==
  [][Starts("emit") =>
       LET hs == handlersOf(listeners, calls'[1].arg[1])
       IN  /\ calls'[1].pc = "done"
           /\ \A i \in 1..Len(hs) : Count(calls'[1].ret[1], hs[i].id) = 1]_vars

\* An emit over two handlers, of which the first throws, has invoked both in
\* order.
C28_Witness ==
  /\ calls[1].op = "emit"
  /\ calls[1].pc = "done"
  /\ calls[1].ret = << <<2, 1>> >>
  /\ Len(listeners["file:change"]) = 2

\* switchTemplate has brought the engine back to a template that an earlier
\* switchTemplate left.
BackOn(s) ==
  /\ calls[s].op = "switchTemplate"
  /\ calls[s].mode = "diff"
  /\ calls[s].pc = "done"
  /\ IdOf(calls[s].tpl) \in DOMAIN made.kept

\* C29: when switchTemplate has brought the engine back to a template, the
\* sandbox holds every user's edit that was saved in the template's snapshot
\* when the engine left it, with auto-save enabled or not.
C29_EditsSurviveRoundTrip ==
  \A s \in Slots :
    BackOn(s) =>
      LET edits == made.kept[IdOf(calls[s].tpl)]
      IN  \A p \in DOMAIN edits : p \in DOMAIN fs.files /\ fs.files[p] = edits[p]

\* Back on a template whose snapshot held an edit of /index.html, with the
\* template's own /index.html in the sandbox: the interval of the replaced
\* PersistenceManager has stored the other template's snapshot under its key.
C29_Witness ==
  /\ BackOn(1)
  /\ <<"index.html">> \in DOMAIN made.kept[IdOf(calls[1].tpl)]
  /\ fs.files[<<"index.html">>] = Flat(TemplateOf(calls[1].tpl))[<<"index.html">>]
  /\ storage[storageKey(IdOf(calls[1].tpl))].templateId = IdOf(calls[1].from)
  /\ storageKey(IdOf(calls[1].tpl)) \in orphanTimers

\* Slot s is inside the applyDiff of a switchTemplate.
InApplyDiff(s) ==
  InDiffSwitch(s) /\ calls[s].pc \in {"sw_remove", "sw_prune", "sw_write"}

\* This step writes a path of diff.added or diff.modified.
WritesTarget(s) ==
  \E p \in calls[s].diff.added \cup calls[s].diff.modified :
    /\ p \in DOMAIN fs'.files
    /\ p \notin DOMAIN fs.files \/ fs'.files[p] # fs.files[p]

\* This step removes a path of diff.removed, or a directory, from the sandbox.
RemovesObsolete(s) == (calls[s].diff.removed \cap DOMAIN fs.files) \ DOMAIN fs'.files # {}
RemovesDir == fs.dirs \ fs'.dirs # {}

\* C30: inside applyDiff, a path of removed is removed only by the first
\* loop, before anything else has changed in the sandbox; a directory is
\* pruned only after that loop; and a path of added or modified is written
\* only once no path of removed is left and no empty directory remains to
\* prune.
C30_RemovalsBeforeWrites ==
  [][\A s \in Slots :
       InApplyDiff(s) =>
         /\ RemovesObsolete(s) =>
               /\ calls[s].pc = "sw_remove"
               /\ VisibleFiles(fs) = calls[s].atCall
               /\ ~WritesTarget(s)
         /\ RemovesDir =>
               /\ calls[s].pc = "sw_prune"
               /\ calls[s].diff.removed \cap DOMAIN fs.files = {}
               /\ ~WritesTarget(s)
         /\ WritesTarget(s) =>
               /\ calls[s].pc = "sw_write"
               /\ calls[s].diff.removed \cap DOMAIN fs.files = {}
               /\ cleanupEmptyDirectories(fs) = fs]_vars

\* An applyDiff that removed /src/App.js, pruned /src and added /main.js has
\* done its writes.
C30_Witness ==
  /\ InDiffSwitch(1)
  /\ calls[1].pc \in {"sw_install", "sw_kill"}
  /\ <<"src", "App.js">> \in calls[1].diff.removed
  /\ <<"main.js">> \in calls[1].diff.added
  /\ <<"src">> \notin fs.dirs
  /\ <<"main.js">> \in DOMAIN fs.files
  /\ <<"src", "App.js">> \in DOMAIN calls[1].atCall

\* applyDiff has returned in slot s.
Applied(s) == calls[s].op = "computeDiff" /\ calls[s].pc = "tm_update"

\* The directory d keeps an entry that the filter of the pruning lets through.
HasShownEntry(f, d) == \E q \in readdir(f, d) : Shown(q)

\* C31: after the removals and the pruning of applyDiff no directory but the
\* root is without entries other than node_modules and hidden ones, at any
\* depth.
C31_NoEmptyDirectoryLeft ==
  \A s \in Slots :
    Applied(s) =>
      \A d \in calls[s].pruned.dirs : d # Root => HasShownEntry(calls[s].pruned, d)

\* applyDiff removed /.github/workflows/ci.yml and left the directory
\* /.github/workflows with no entry at all.
C31_Witness ==
  /\ Applied(1)
  /\ <<".github", "workflows", "ci.yml">> \in calls[1].diff.removed
  /\ <<".github", "workflows">> \in calls[1].pruned.dirs
  /\ readdir(calls[1].pruned, <<".github", "workflows">>) = {}

\* ------------------------------------- the file watcher and write-through

\* What the user does: calls on the FileSystemManager and edits in the editor.
MaxWatchCalls == 2

\* The paths written and read: the editor's active file and another one.
WatchPaths == {<<"src", "App.js">>, <<"index.html">>}

WatchContents == {Txt("one")}

\* A watcher with one timer for all paths: a notification cancels whatever
\* another path had pending.
notifyShared(w, p, content) ==
  IF w.watched THEN [w EXCEPT !.pending = [q \in {p} |-> content]] ELSE w

\* FileWatcher.notifyChange(p, content) with '/' among the watched paths or
\* not: the debouncer of p is called, which cancels the timer p had pending
\* and sets one that holds the new content; the timers of other paths stay.
notifyChange(w, p, content) ==
  IF w.watched
  THEN [w EXCEPT !.pending = Overwrite(@, [q \in {p} |-> content])]
  ELSE w

\* An engine on which initialize(react) and then mountEditor have returned:
\* the template is mounted with its dependencies installed, mount has put '/'
\* under watch, the entry file is the active file and sits in the read cache,
\* and the constructor's handler listens to file:change.
InitWatch ==
  /\ status = "ready"
  /\ storeStatus = "ready"
  /\ currentTemplate = "react"
  /\ persistence = "react"
  /\ hasFsm = TRUE
  /\ hasTm = TRUE
  /\ hasPreview = TRUE
  /\ installedHash = Hash(TemplateOf("react").dependencies)
  /\ currentFiles = Flat(TemplateOf("react"))
  /\ instance = TRUE
  /\ fs = fsMkdir(installGate(fsMount(EmptyFs, Flat(TemplateOf("react"))),
                              "react", NoHash, TRUE).fs, NodeModules)
  /\ fileCache = readAll(fs, EmptyMap, {TemplateOf("react").entryFile}).cache
  /\ devServers = previewStart(0)
  /\ serverReady = onServerReady(NoServerReady)
  /\ processes = 0
  /\ storage = [k \in {} |-> 0]
  /\ editorView = TRUE
  /\ activeFile = TemplateOf("react").entryFile
  /\ openTabs = {TemplateOf("react").entryFile}
  /\ autoSave = FALSE
  /\ pendingArm = 0
  /\ curTimer = FALSE
  /\ orphanTimers = {}
  /\ tick = IdleTick
  /\ calls = [s \in Slots |-> IdleCall]
  /\ bootPromise = [st |-> "resolved", wc |-> 1]
  /\ boots = 1
  /\ templateCache = cacheSet(EmptyCache, EngineCache, "react", "react", 0)
  /\ storeTemplate = "react"
  /\ now = 0
  /\ listeners = EngineListeners
  /\ watcher = [NoWatcher EXCEPT !.watched = TRUE]
  /\ made = NothingMade

\* The slot the next call runs in: the first free one.
FreeSlot(s) ==
  /\ calls[s].op = "none"
  /\ \A r \in Slots : r < s => calls[r].op # "none"

\* The engine's handler is registered and takes the event for path p: p is
\* the editor's active file, and updateFile finds a FileSystemManager.
WritesThrough(p) ==
  /\ \E i \in 1..Len(handlersOf(listeners, "file:change")) :
       handlersOf(listeners, "file:change")[i] = WriteThrough
  /\ p # NoPath
  /\ p = activeFile
  /\ hasFsm

\* events.emit('file:change', p, content): the engine's handler calls
\* updateFile(p, content), which runs up to the sandbox write it awaits.
EmitFileChange(p, content) ==
  IF WritesThrough(p)
  THEN \E s \in Slots :
         /\ FreeSlot(s)
         /\ calls' = [calls EXCEPT ![s] =
                        [IdleCall EXCEPT !.op = "writeFile", !.pc = "wf_write",
                                         !.arg = <<p, content>>, !.mode = "handler"]]
  ELSE UNCHANGED calls

\* The user calls updateFile(p, content): writeFile runs up to the sandbox
\* write it awaits.
WriteFileCall(s, p, content) ==
  /\ FreeSlot(s)
  /\ hasFsm
  /\ calls' = [calls EXCEPT ![s] =
                 [IdleCall EXCEPT !.op = "writeFile", !.pc = "wf_write",
                                  !.arg = <<p, content>>, !.mode = "user"]]
  /\ UNCHANGED <<engineVars, fsmVars, sandboxVars, storage, editorVars, timerVars,
                 staticVars, listeners, watcher>>

\* The sandbox performs the write.
WriteFileLands(s) ==
  /\ calls[s].op = "writeFile"
  /\ calls[s].pc = "wf_write"
  /\ fs' = fsWriteFile(fs, calls[s].arg[1], calls[s].arg[2])
  /\ Goto(s, "wf_written")
  /\ UNCHANGED <<engineVars, fsmVars, instance, devServers, serverReady, processes, storage,
                 editorVars, timerVars, staticVars, listeners, watcher, made>>

\* writeFile resumes after its await: the cache entry is deleted, the watcher
\* notified, and the call returns.
WriteFileReturns(s) ==
  /\ calls[s].op = "writeFile"
  /\ calls[s].pc = "wf_written"
  /\ fileCache' = Without(fileCache, {calls[s].arg[1]})
  /\ watcher' = notifyChange(watcher, calls[s].arg[1], calls[s].arg[2])
  /\ calls' = [calls EXCEPT ![s] = IdleCall]
  /\ UNCHANGED <<engineVars, currentFiles, sandboxVars, storage, editorVars,
                 timerVars, staticVars, listeners, made>>

\* The user calls readFile(p): a cached content is returned at once, otherwise
\* readFile runs up to the sandbox read it awaits.
ReadFileCall(s, p) ==
  /\ FreeSlot(s)
  /\ hasFsm
  /\ calls' = IF p \in DOMAIN fileCache THEN calls
              ELSE [calls EXCEPT ![s] =
                      [IdleCall EXCEPT !.op = "readFile", !.pc = "rf_read",
                                       !.arg = <<p>>, !.mode = "user"]]
  /\ UNCHANGED <<engineVars, fsmVars, sandboxVars, storage, editorVars, timerVars,
                 staticVars, listeners, watcher>>

\* The sandbox performs the read.
ReadFileLands(s) ==
  /\ calls[s].op = "readFile"
  /\ calls[s].pc = "rf_read"
  /\ calls[s].arg[1] \in DOMAIN fs.files
  /\ calls' = [calls EXCEPT ![s] =
                 [@ EXCEPT !.pc = "rf_got", !.ret = <<fs.files[calls[s].arg[1]]>>]]
  /\ UNCHANGED <<engineVars, fsmVars, sandboxVars, storage, editorVars, timerVars,
                 staticVars, listeners, watcher, made>>

\* readFile resumes after its await: the content read is cached and returned.
ReadFileReturns(s) ==
  /\ calls[s].op = "readFile"
  /\ calls[s].pc = "rf_got"
  /\ fileCache' = Overwrite(fileCache, [q \in {calls[s].arg[1]} |-> calls[s].ret[1]])
  /\ calls' = [calls EXCEPT ![s] = IdleCall]
  /\ UNCHANGED <<engineVars, currentFiles, sandboxVars, storage, editorVars,
                 timerVars, staticVars, listeners, watcher, made>>

\* The debounce timer of path p fires: file:change is emitted for p with the
\* content of the last notification.
DebounceFires(p) ==
  /\ p \in DOMAIN watcher.pending
  /\ watcher' = [watcher EXCEPT
                   !.pending = Without(@, {p}),
                   !.emitted = <<p, watcher.pending[p]>>]
  /\ EmitFileChange(p, watcher.pending[p])
  /\ UNCHANGED <<engineVars, fsmVars, sandboxVars, storage, editorVars, timerVars,
                 staticVars, listeners, made>>

\* The user edits the document: the editor emits file:change for its active
\* file with the content of the document.
EditorChange(content) ==
  /\ editorView
  /\ EmitFileChange(activeFile, content)
  /\ UNCHANGED <<engineVars, fsmVars, sandboxVars, storage, editorVars, timerVars,
                 staticVars, listeners, watcher>>

\* What the event loop does on its own: sandbox operations complete, awaiting
\* calls resume, timers fire.
WatchStep ==
  \/ \E s \in Slots : WriteFileLands(s)
  \/ \E s \in Slots : WriteFileReturns(s)
  \/ \E s \in Slots : ReadFileLands(s)
  \/ \E s \in Slots : ReadFileReturns(s)
  \/ \E p \in WatchPaths : DebounceFires(p)

\* The user acts, by a call or by an edit: MaxWatchCalls times at most.
UserActs(kind) ==
  /\ made.calls + made.edits < MaxWatchCalls
  /\ made' = [made EXCEPT ![kind] = @ + 1]

NextWatch ==
  \/ \E s \in Slots, p \in WatchPaths, content \in WatchContents :
       UserActs("calls") /\ WriteFileCall(s, p, content)
  \/ \E s \in Slots, p \in WatchPaths : UserActs("calls") /\ ReadFileCall(s, p)
  \/ \E content \in UserContents : UserActs("edits") /\ EditorChange(content)
  \/ WatchStep

\* Sandbox operations complete, promises settle and timers fire: a step of the
\* event loop that stays possible is taken.
SpecWatch ==
  /\ InitWatch
  /\ [][NextWatch]_vars
  /\ \A s \in Slots : WF_vars(WriteFileLands(s))
  /\ \A s \in Slots : WF_vars(WriteFileReturns(s))
  /\ \A s \in Slots : WF_vars(ReadFileLands(s))
  /\ \A s \in Slots : WF_vars(ReadFileReturns(s))
  /\ \A p \in WatchPaths : WF_vars(DebounceFires(p))

\* A writeFile call on path p resumes in this step and notifies the watcher.
Notifies(s, p) ==
  /\ calls[s].op = "writeFile"
  /\ calls[s].pc = "wf_written"
  /\ calls[s].arg[1] = p
  /\ calls'[s].op = "none"

\* In one step the timer of p is set to the content just written to p and to
\* nothing else; a timer that is pending stays as it is, whatever happens to
\* other paths, until it fires and file:change carries its content.
TimerOfPathKept(p) ==
  IF \E s \in Slots : Notifies(s, p)
  THEN \E s \in Slots :
         /\ Notifies(s, p)
         /\ p \in DOMAIN watcher'.pending
         /\ watcher'.pending[p] = calls[s].arg[2]
  ELSE IF p \in DOMAIN watcher.pending
  THEN \/ /\ p \in DOMAIN watcher'.pending
          /\ watcher'.pending[p] = watcher.pending[p]
       \/ /\ p \notin DOMAIN watcher'.pending
          /\ watcher'.emitted = <<p, watcher.pending[p]>>
  ELSE p \notin DOMAIN watcher'.pending

\* C32: notifications are debounced per path. A write to one watched path
\* never cancels or alters the timer pending for another path; the timer of a
\* path holds the last content written to it; and every pending timer
\* eventually fires, emitting file:change for its path with that content. So
\* two distinct paths written within one debounce window each get their event.
C32_DebouncedPerPath ==
  /\ [][\A p \in WatchPaths : TimerOfPathKept(p)]_vars
  /\ \A p \in WatchPaths :
       (p \in DOMAIN watcher.pending) ~> (p \notin DOMAIN watcher.pending)

\* Two distinct paths were written within one debounce window, one by the
\* user and one by the engine's handler: both timers are pending at once, each
\* with the content written to its path.
C32_Witness ==
  /\ DOMAIN watcher.pending = WatchPaths
  /\ watcher.pending[<<"index.html">>] = Txt("one")
  /\ watcher.pending[<<"src", "App.js">>] = Txt("edited")

\* No sandbox write or read is in flight and no debounce timer is pending:
\* nothing more will be written or emitted unless the user acts.
Quiescent == Idle /\ watcher.pending = EmptyMap

\* C33: an edit of the active file leads to quiescence. When the user makes
\* no call of their own on the files, so that the editor's file:change events
\* are all that sets things going, the sandbox writes and the file:change
\* events come to an end: from some point on nothing is in flight and no
\* timer is pending.
C33_EditLeadsToQuiescence == [](made.calls = 0) => <>[]Quiescent

\* After a single edit and no other call, the watcher has emitted file:change
\* for the active file with the content the handler wrote, and the handler is
\* writing that same content again.
C33_Witness ==
  /\ made.calls = 0
  /\ made.edits = 1
  /\ watcher.emitted = <<activeFile, Txt("edited")>>
  /\ \E s \in Slots :
       /\ calls[s].op = "writeFile"
       /\ calls[s].mode = "handler"
       /\ calls[s].arg = <<activeFile, Txt("edited")>>

\* C34: snapshot keying. After any sequence of initialize, switchTemplate,
\* auto-save ticks and saveSnapshot calls, the snapshot stored under the key
\* playground-X has templateId X.
C34_SnapshotKeying ==
  \A k \in DOMAIN storage : storage[k].templateId = k[2]

\* The interval of a PersistenceManager that switchTemplate replaced has
\* fired after the switch: the key of the template the engine left holds a
\* snapshot of the template it is on now.
C34_Witness ==
  /\ Idle
  /\ tick.pc = "idle"
  /\ currentTemplate # NoTemplate
  /\ \E k \in orphanTimers :
       /\ k \in DOMAIN storage
       /\ k # storageKey(IdOf(currentTemplate))
       /\ storage[k].templateId = IdOf(currentTemplate)

\* C35: whenever no call is in flight, the status of the engine equals the
\* status published in the shared store.
C35_StatusMatchesStore == Idle => status = storeStatus

\* A switchTemplate has succeeded after a failed call: the engine is ready,
\* the store still says error.
C35_Witness ==
  /\ Idle
  /\ made.last.op = "switchTemplate"
  /\ made.last.ok
  /\ status = "ready"
  /\ storeStatus = "error"

\* The cache has no entry for p or holds what the sandbox stores at p.
Coherent(p) ==
  p \in DOMAIN fileCache => p \in DOMAIN fs.files /\ fileCache[p] = fs.files[p]

\* C36: read-cache coherence under interleaving. Once every readFile and
\* writeFile call has completed, the cache has no entry for a path or holds
\* the content the sandbox stores at it.
C36_CacheCoherent == Idle => \A p \in WatchPaths : Coherent(p)

\* A readFile and a writeFile of one path have both completed, the sandbox
\* holds the content written and the cache holds the content from before.
C36_Witness ==
  /\ Idle
  /\ made.calls = 2
  /\ made.edits = 0
  /\ fs.files[<<"index.html">>] = Txt("one")
  /\ <<"index.html">> \in DOMAIN fileCache
  /\ fileCache[<<"index.html">>] = Flat(TemplateOf("react"))[<<"index.html">>]

\* Path p belongs to the target of the call in slot s with the content that
\* was mounted when the call was made.
UnchangedInTarget(s, p) ==
  /\ p \in DOMAIN calls[s].target
  /\ p \in DOMAIN calls[s].atCall
  /\ calls[s].atCall[p] = calls[s].target[p]

\* C37: applyDiff never deletes a file of the target template whose content
\* is unchanged: after applyDiff every such path is in the sandbox with that
\* content, hidden files included.
C37_UnchangedFilesKept ==
  \A s \in Slots :
    Applied(s) =>
      \A p \in DOMAIN calls[s].target :
        UnchangedInTarget(s, p) =>
          p \in DOMAIN fs.files /\ fs.files[p] = calls[s].target[p]

\* The diff removed /lib/b.js and left /lib/.keep alone, which both templates
\* hold with one content: after applyDiff the sandbox has no /lib/.keep.
C37_Witness ==
  /\ Applied(1)
  /\ UnchangedInTarget(1, <<"lib", ".keep">>)
  /\ <<"lib", "b.js">> \in calls[1].diff.removed
  /\ <<"lib", ".keep">> \notin DOMAIN fs.files

\* The initialize or switchTemplate call in slot s has been rejected.
Rejected(s) ==
  /\ calls[s].op \in {"initialize", "switchTemplate"}
  /\ calls[s].pc = "failed"

\* C38: a failed initialize or switchTemplate call has emitted exactly one
\* error event, whichever step failed.
C38_OneErrorPerFailure ==
  \A s \in Slots : Rejected(s) => calls[s].errs = 1

\* A call rejected because npm install failed: installDependencies has
\* emitted error and the call's own catch has emitted it again.
C38_Witness ==
  /\ Rejected(1)
  /\ calls[1].fault = "install"
  /\ calls[1].errs = 2

\* ------------------------------------------------ the server-ready signal

\* A dev server has come up: the sandbox signals server-ready, and every
\* handler registered for the signal emits preview:ready.
ServerReady ==
  /\ instance
  /\ devServers > 0
  /\ serverReady' = [serverReady EXCEPT !.emitted = serverReady.handlers]
  /\ UNCHANGED <<engineVars, fsmVars, instance, fs, devServers, processes, storage,
                 editorVars, timerVars, calls, staticVars, listeners, watcher, made>>

\* The sequential caller, over a sandbox whose dev servers come up between
\* any two steps.
NextPreview ==
  \/ Sequential
  \/ ServerReady

SpecPreview == Init /\ [][NextPreview]_vars

\* C39: each server-ready signal produces exactly one preview:ready event,
\* after any number of dev-server starts.
C39_OnePreviewReadyPerSignal == serverReady.emitted <= 1

\* After initialize and one switchTemplate, both returned, a server-ready
\* signal has led to two preview:ready events.
C39_Witness ==
  /\ Idle
  /\ made.calls = 2
  /\ made.last.op = "switchTemplate"
  /\ made.last.ok
  /\ serverReady.handlers = 2
  /\ serverReady.emitted = 2

\* ------------------------------------------- edits across a cleanup

\* The user edits the document while no call is in flight: MaxEdits times at
\* most. The edit is noted as the last thing that happened.
EditorChanged(content) ==
  /\ Idle
  /\ made.edits < MaxEdits
  /\ made' = [made EXCEPT !.edits = @ + 1,
                          !.last = [op |-> "file:change", mode |-> "none", ok |-> TRUE]]
  /\ EditorChange(content)

\* One caller that awaits every call, over one template: it initializes,
\* mounts the editor, cleans up and initializes again, and edits the document
\* in between; the writes the engine's handler starts run to their end.
NextEdit ==
  \/ Idle /\ CalledUpTo(MaxRestoreCalls) /\ Initialize(1, "react")
  \/ Idle /\ CalledUpTo(MaxRestoreCalls) /\ Cleanup(1)
  \/ Idle /\ MountEditor /\ UNCHANGED made
  \/ \E content \in UserContents : EditorChanged(content)
  \/ WriteFileLands(1)
  \/ WriteFileReturns(1)
  \/ ClearStep(1)
  \/ InitCleared(1)
  \/ InitBoot(1)
  \/ InitBootFail(1)
  \/ InitMount(1)
  \/ InitMountFail(1)
  \/ InitLoad(1)
  \/ InstallGate(1)
  \/ NpmExit(1)
  \/ NpmFail(1)
  \/ InitPreview(1)
  \/ InitPreviewFail(1)
  \/ Return(1)
  \/ CleanupStep(1)

SpecEdit == Init /\ [][NextEdit]_vars

\* The editor emits file:change for its active file in this step, on an
\* engine that is ready.
EditOfActiveFile ==
  /\ made'.edits = made.edits + 1
  /\ status = "ready"
  /\ hasFsm
  /\ editorView
  /\ activeFile # NoPath

\* C40: the engine stays functional across cleanup() and a new initialize:
\* on a ready engine, before a cleanup or after one, a file:change event for
\* the active file starts the write of its content to the sandbox.
C40_WriteThroughSurvivesCleanup ==
  [][EditOfActiveFile =>
       \E s \in Slots :
         /\ calls[s].op = "none"
         /\ calls'[s].op = "writeFile"
         /\ calls'[s].arg[1] = activeFile]_vars

\* After initialize, cleanup and initialize again, with the editor mounted on
\* the entry file, the last thing that happened is an edit: nothing is in
\* flight, the sandbox holds the template's content, no listener is left.
C40_Witness ==
  /\ Idle
  /\ made.calls = 3
  /\ made.last.op = "file:change"
  /\ status = "ready"
  /\ hasFsm
  /\ editorView
  /\ activeFile = TemplateOf("react").entryFile
  /\ fs.files[activeFile] = Flat(TemplateOf("react"))[activeFile]
  /\ listeners = NoListeners

====
